---- MODULE Spec2Model ----
(***************************************************************************)
(* Model of the booking assistant: the chat handler of routes/chat.py      *)
(* (registration, commands, provider onboarding, booking negotiation and   *)
(* commit) and the direct booking-creation endpoint of routes/bookings.py, *)
(* over the four collections of the document store.                        *)
(*                                                                         *)
(* Texts are sequences of lower-case tokens; Spell gives the characters of *)
(* a token, so that substring and prefix tests are computed on characters. *)
(* Date-times are minutes counted from midnight of the current day; the    *)
(* ISO string the draft stores is the triple <<day, hour, minute>>.        *)
(***************************************************************************)
EXTENDS Integers, Sequences, FiniteSets, TLC

VARIABLES users, providers, conversations, bookings, inflight, last

vars == <<users, providers, conversations, bookings, inflight, last>>

\* ---------------------------------------------------------------- bounds

\* At most this many booking documents are stored in a run.
MaxBookings == 2

\* At most this many conversation documents are created in a run.
MaxConvs == 3

\* ------------------------------------------------------------- constants

\* chat.py: slot_minutes = 60 at the commit, and the ranker's default.
slot_minutes == 60

\* Python's None where the value is a number: a datetime, a coordinate, a
\* distance.
None == -1

\* _find_nearby_providers: max_distance_m, the $limit of the queries, and
\* the length of the shortlist
max_distance_m == 30000

query_limit == 10

shortlist_len == 5

\* bedrock_client.converse: the number of attempts
retries == 5

\* ------------------------------------------------------------ characters

Spell ==
    "need" :> <<"n", "e", "e", "d">> @@
    "a" :> <<"a">> @@
    "plumber" :> <<"p", "l", "u", "m", "b", "e", "r">> @@
    "plumbing" :> <<"p", "l", "u", "m", "b", "i", "n", "g">> @@
    "but" :> <<"b", "u", "t">> @@
    "change" :> <<"c", "h", "a", "n", "g", "e">> @@
    "the" :> <<"t", "h", "e">> @@
    "time" :> <<"t", "i", "m", "e">> @@
    "electrician" :> <<"e", "l", "e", "c", "t", "r", "i", "c", "i", "a", "n">> @@
    "cleaner" :> <<"c", "l", "e", "a", "n", "e", "r">> @@
    "painter" :> <<"p", "a", "i", "n", "t", "e", "r">> @@
    "gardener" :> <<"g", "a", "r", "d", "e", "n", "e", "r">> @@
    "handyman" :> <<"h", "a", "n", "d", "y", "m", "a", "n">> @@
    "for" :> <<"f", "o", "r">> @@
    "leak" :> <<"l", "e", "a", "k">> @@
    "tomorrow" :> <<"t", "o", "m", "o", "r", "r", "o", "w">> @@
    "today" :> <<"t", "o", "d", "a", "y">> @@
    "at" :> <<"a", "t">> @@
    "on" :> <<"o", "n">> @@
    "3pm" :> <<"3", "p", "m">> @@
    "12" :> <<"1", "2">> @@
    "main" :> <<"m", "a", "i", "n">> @@
    "," :> <<",">> @@
    "north" :> <<"n", "o", "r", "t", "h">> @@
    "city" :> <<"c", "i", "t", "y">> @@
    "1" :> <<"1">> @@
    "2" :> <<"2">> @@
    "yes" :> <<"y", "e", "s">> @@
    "no" :> <<"n", "o">> @@
    "n" :> <<"n">> @@
    "/reset" :> <<"/", "r", "e", "s", "e", "t">> @@
    "/end" :> <<"/", "e", "n", "d">> @@
    "/profile" :> <<"/", "p", "r", "o", "f", "i", "l", "e">> @@
    "/provider" :> <<"/", "p", "r", "o", "v", "i", "d", "e", "r">> @@
    "status" :> <<"s", "t", "a", "t", "u", "s">> @@
    "/bookings" :> <<"/", "b", "o", "o", "k", "i", "n", "g", "s">> @@
    "alice" :> <<"a", "l", "i", "c", "e">> @@
    "y" :> <<"y">> @@
    "agree" :> <<"a", "g", "r", "e", "e">> @@
    "i" :> <<"i">> @@
    "confirm" :> <<"c", "o", "n", "f", "i", "r", "m">> @@
    "ok" :> <<"o", "k">> @@
    "okay" :> <<"o", "k", "a", "y">> @@
    "go" :> <<"g", "o">> @@
    "ahead" :> <<"a", "h", "e", "a", "d">> @@
    "sure" :> <<"s", "u", "r", "e">> @@
    "cancel" :> <<"c", "a", "n", "c", "e", "l">> @@
    "stop" :> <<"s", "t", "o", "p">> @@
    "recommend" :> <<"r", "e", "c", "o", "m", "m", "e", "n", "d">> @@
    "choose" :> <<"c", "h", "o", "o", "s", "e">> @@
    "pick" :> <<"p", "i", "c", "k">> @@
    "me" :> <<"m", "e">> @@
    "register" :> <<"r", "e", "g", "i", "s", "t", "e", "r">> @@
    "provider" :> <<"p", "r", "o", "v", "i", "d", "e", "r">> @@
    "live" :> <<"l", "i", "v", "e">> @@
    "hi" :> <<"h", "i">> @@
    "hello" :> <<"h", "e", "l", "l", "o">> @@
    "hey" :> <<"h", "e", "y">> @@
    "hie" :> <<"h", "i", "e">> @@
    "morning" :> <<"m", "o", "r", "n", "i", "n", "g">> @@
    "afternoon" :> <<"a", "f", "t", "e", "r", "n", "o", "o", "n">> @@
    "evening" :> <<"e", "v", "e", "n", "i", "n", "g">> @@
    "working" :> <<"w", "o", "r", "k", "i", "n", "g">> @@
    "broken" :> <<"b", "r", "o", "k", "e", "n">> @@
    "clog" :> <<"c", "l", "o", "g">> @@
    "not" :> <<"n", "o", "t">> @@
    "pm" :> <<"p", "m">> @@
    "3" :> <<"3">> @@
    "12am" :> <<"1", "2", "a", "m">> @@
    "12pm" :> <<"1", "2", "p", "m">> @@
    "11am" :> <<"1", "1", "a", "m">> @@
    "15:00" :> <<"1", "5", ":", "0", "0">> @@
    "3:30pm" :> <<"3", ":", "3", "0", "p", "m">> @@
    "12:30am" :> <<"1", "2", ":", "3", "0", "a", "m">> @@
    "300pm" :> <<"3", "0", "0", "p", "m">> @@
    "1230pm" :> <<"1", "2", "3", "0", "p", "m">> @@
    "25:00" :> <<"2", "5", ":", "0", "0">> @@
    "13pm" :> <<"1", "3", "p", "m">> @@
    "12:60" :> <<"1", "2", ":", "6", "0">> @@
    "0:00" :> <<"0", ":", "0", "0">>

Digit == {"0", "1", "2", "3", "4", "5", "6", "7", "8", "9"}

DigitVal ==
    "0" :> 0 @@ "1" :> 1 @@ "2" :> 2 @@ "3" :> 3 @@ "4" :> 4 @@
    "5" :> 5 @@ "6" :> 6 @@ "7" :> 7 @@ "8" :> 8 @@ "9" :> 9

\* the value of x in `x = e; ...': The(S) is the one element of S, and
\* The({body : x \in {e}}) is body with x bound to the value of e
The(S) == CHOOSE y \in S : TRUE

\* The characters of a text: its tokens joined by single spaces
\* (a comma token attaches to the token before it, as in "main, north").
RECURSIVE Chars(_)
Chars(toks) ==
    IF toks = <<>> THEN <<>>
    ELSE IF Len(toks) = 1 THEN Spell[toks[1]]
    ELSE IF toks[2] = "," THEN Spell[toks[1]] \o Chars(Tail(toks))
    ELSE Spell[toks[1]] \o <<" ">> \o Chars(Tail(toks))

\* str.startswith
StartsWith(s, p) == Len(p) <= Len(s) /\ SubSeq(s, 1, Len(p)) = p

\* p in s (substring)
Contains(s, p) ==
    \E i \in 1..(Len(s) - Len(p) + 1) : SubSeq(s, i, i + Len(p) - 1) = p

\* the characters of a literal phrase of the source
Lit(toks) == Chars(toks)

Letter ==
    {"a", "b", "c", "d", "e", "f", "g", "h", "i", "j", "k", "l", "m",
     "n", "o", "p", "q", "r", "s", "t", "u", "v", "w", "x", "y", "z"}

\* the regex class \w, and the class [\w\-] of the address pattern
WordChar == Letter \cup Digit \cup {"_"}

\* the number of leading digits of a character sequence
RECURSIVE LeadDigits(_)
LeadDigits(c) ==
    IF c = <<>> \/ Head(c) \notin Digit THEN 0 ELSE 1 + LeadDigits(Tail(c))

\* int() of a sequence of digits
RECURSIVE IntOf(_)
IntOf(c) ==
    IF c = <<>> THEN 0
    ELSE IntOf(SubSeq(c, 1, Len(c) - 1)) * 10 + DigitVal[c[Len(c)]]

AllDigits(c) == c # <<>> /\ LeadDigits(c) = Len(c)

AmPm(c) ==
    IF c = <<"a", "m">> THEN "am" ELSE IF c = <<"p", "m">> THEN "pm" ELSE ""

\* ---------------------------------------------- _parse_natural_datetime

\* The am/pm a match takes after its digits: the rest of the token, or the
\* next token when the digits end the token (the pattern's \s*).
AmPmAfter(toks, i, n) ==
    LET c == Spell[toks[i]]
        r == SubSeq(c, n + 1, Len(c))
    IN  IF r # <<>> THEN AmPm(r)
        ELSE IF i < Len(toks) THEN AmPm(Spell[toks[i + 1]])
        ELSE ""

\* \b(\d{1,2}):(\d{2})\s*(am|pm)?\b matched at token i
ClockHM(toks, i) ==
    LET c == Spell[toks[i]]
        k == LeadDigits(c)
        r == SubSeq(c, k + 4, Len(c))
    IN  IF /\ k \in {1, 2}
           /\ Len(c) >= k + 3
           /\ c[k + 1] = ":"
           /\ c[k + 2] \in Digit
           /\ c[k + 3] \in Digit
           /\ (r = <<>> \/ AmPm(r) # "")
        THEN <<[hour |-> IntOf(SubSeq(c, 1, k)),
                minute |-> IntOf(SubSeq(c, k + 2, k + 3)),
                ampm |-> AmPmAfter(toks, i, k + 3)]>>
        ELSE <<>>

\* \b(\d{3,4})\s*(am|pm)\b matched at token i ("300pm", "1230pm")
ClockCompact(toks, i) ==
    LET c == Spell[toks[i]]
        k == LeadDigits(c)
        ap == AmPmAfter(toks, i, k)
    IN  IF k \in {3, 4} /\ ap # ""
        THEN <<[hour |-> IntOf(SubSeq(c, 1, k - 2)),
                minute |-> IntOf(SubSeq(c, k - 1, k)),
                ampm |-> ap]>>
        ELSE <<>>

\* \b(\d{1,2})\s*(am|pm)\b matched at token i ("3 pm", "3pm")
ClockHour(toks, i) ==
    LET c == Spell[toks[i]]
        k == LeadDigits(c)
        ap == AmPmAfter(toks, i, k)
    IN  IF k \in {1, 2} /\ ap # ""
        THEN <<[hour |-> IntOf(SubSeq(c, 1, k)), minute |-> 0, ampm |-> ap]>>
        ELSE <<>>

\* one of the three patterns matched at token i
ClockAt(pat, toks, i) ==
    IF pat = "hm" THEN ClockHM(toks, i)
    ELSE IF pat = "compact" THEN ClockCompact(toks, i)
    ELSE ClockHour(toks, i)

\* re.search: the leftmost match of one pattern, <<>> when there is none
FirstClock(pat, toks) ==
    LET hits == {i \in 1..Len(toks) : ClockAt(pat, toks, i) # <<>>}
    IN  IF hits = {} THEN <<>>
        ELSE ClockAt(pat, toks, CHOOSE i \in hits : \A j \in hits : i <= j)

\* the three patterns, tried in the order of the source
ClockOf(toks) ==
    The({IF hm # <<>> THEN hm
         ELSE The({IF compact # <<>> THEN compact ELSE FirstClock("hour", toks)
                   : compact \in {FirstClock("compact", toks)}})
         : hm \in {FirstClock("hm", toks)}})

\* a 12-hour arithmetic that adds 12 to every pm hour
Hour24_noon_plus_12(hour, ampm) ==
    IF ampm = "pm" THEN hour + 12
    ELSE IF ampm = "am" /\ hour = 12 THEN 0
    ELSE hour

\* the 12-hour arithmetic
Hour24(hour, ampm) ==
    IF ampm = "pm" /\ hour # 12 THEN hour + 12
    ELSE IF ampm = "am" /\ hour = 12 THEN 0
    ELSE hour

\* the day offset of base relative to now: 1 for tomorrow, 0 for today,
\* -1 when the text has no day word
BaseDay(toks) ==
    IF Contains(Chars(toks), Lit(<<"tomorrow">>)) THEN 1
    ELSE IF Contains(Chars(toks), Lit(<<"today">>)) THEN 0
    ELSE -1

\* [kind |-> "none"] for None, "error" where datetime.replace raises
\* ValueError, "ok" with the datetime in minutes from today's midnight.
parse_natural_datetime(toks) ==
    The({IF ck = <<>> THEN [kind |-> "none", dt |-> None]
         ELSE The({
             IF base < 0 THEN [kind |-> "none", dt |-> None]
             ELSE IF hour > 23 \/ ck[1].minute > 59 THEN [kind |-> "error", dt |-> None]
             ELSE [kind |-> "ok", dt |-> base * 1440 + hour * 60 + ck[1].minute]
             : hour \in {Hour24(ck[1].hour, ck[1].ampm)}, base \in {BaseDay(toks)}})
         : ck \in {ClockOf(toks)}})

\* datetime.isoformat / datetime.fromisoformat: the ISO string is the
\* triple <<day, hour, minute>>
isoformat(dt) == <<dt \div 1440, (dt % 1440) \div 60, dt % 60>>

fromisoformat(iso) == iso[1] * 1440 + iso[2] * 60 + iso[3]

\* ---------------------------------------------- _extract_booking_entities

services == <<"plumber", "electrician", "cleaner", "painter", "gardener", "handyman">>

\* next((s for s in services if s in tl), None); "" for None
ServiceIn(toks) ==
    LET found == {k \in 1..Len(services) : Contains(Chars(toks), Spell[services[k]])}
    IN  IF found = {} THEN ""
        ELSE services[CHOOSE k \in found : \A j \in found : k <= j]

\* \bfor\s+(.+?)(?:\s+at\b|\s+on\b|$): the tokens after the first "for"
\* that is followed by a token, up to the first later "at" or "on"
IssueAfterFor(toks) ==
    LET fors == {i \in 1..(Len(toks) - 1) : toks[i] = "for"}
        i == CHOOSE x \in fors : \A y \in fors : x <= y
        stops == {j \in (i + 2)..Len(toks) : toks[j] \in {"at", "on"}}
        j == IF stops = {} THEN Len(toks) + 1
             ELSE CHOOSE x \in stops : \A y \in stops : x <= y
    IN  IF fors = {} THEN <<>> ELSE SubSeq(toks, i + 1, j - 1)

\* (leak\w.*|broken[^.]*|not working[^.]*|clog\w[^.]*) starting at token i
ComplaintAt(toks, i) ==
    LET c == Spell[toks[i]]
    IN  \/ StartsWith(c, Lit(<<"leak">>)) /\ Len(c) > 4 /\ c[5] \in WordChar
        \/ StartsWith(c, Lit(<<"broken">>))
        \/ /\ toks[i] = "not"
           /\ i < Len(toks)
           /\ StartsWith(Spell[toks[i + 1]], Lit(<<"working">>))
        \/ StartsWith(c, Lit(<<"clog">>)) /\ Len(c) > 4 /\ c[5] \in WordChar

\* the text from the leftmost complaint word to the end of the message
IssueComplaint(toks) ==
    LET hits == {i \in 1..Len(toks) : ComplaintAt(toks, i)}
        i == CHOOSE x \in hits : \A y \in hits : x <= y
    IN  IF hits = {} THEN <<>> ELSE SubSeq(toks, i, Len(toks))

IssueIn(toks) ==
    The({IF after # <<>> THEN after ELSE IssueComplaint(toks)
         : after \in {IssueAfterFor(toks)}})

\* a token made of [\w\-] characters only
IsWordTok(tok) == \A k \in 1..Len(Spell[tok]) : Spell[tok][k] \in WordChar \cup {"-"}

\* [A-Za-z][\w\-]+ : a word of two characters or more that starts with a letter
IsNameTok(tok) == IsWordTok(tok) /\ Len(Spell[tok]) >= 2 /\ Spell[tok][1] \in Letter

\* the first token after position k that is not a comma (0 when none)
NextWord(toks, k) ==
    LET later == {j \in (k + 1)..Len(toks) : toks[j] # ","}
    IN  IF later = {} THEN 0 ELSE CHOOSE j \in later : \A x \in later : j <= x

\* (\d+\s+[A-Za-z][\w\s\-]*)[, ]+([A-Za-z][\w\-]+)[, ]+([A-Za-z][\w\-]+)
\* with the number at token i and the street ending at token k
AddressAt(toks, i, k) ==
    LET p == NextWord(toks, k)
        q == IF p = 0 THEN 0 ELSE NextWord(toks, p)
    IN  /\ AllDigits(Spell[toks[i]])
        /\ k > i
        /\ Spell[toks[i + 1]][1] \in Letter
        /\ \A x \in (i + 1)..k : IsWordTok(toks[x])
        /\ p # 0 /\ IsNameTok(toks[p])
        /\ q # 0 /\ IsNameTok(toks[q])

\* the leftmost match, its first group as long as it can be; <<>> for no match
AddressIn(toks) ==
    LET hits == {i \in 1..Len(toks) : \E k \in 1..Len(toks) : AddressAt(toks, i, k)}
        i == CHOOSE x \in hits : \A y \in hits : x <= y
        ends == {k \in 1..Len(toks) : AddressAt(toks, i, k)}
        k == CHOOSE x \in ends : \A y \in ends : x >= y
        p == NextWord(toks, k)
        q == NextWord(toks, p)
    IN  IF hits = {} THEN <<>>
        ELSE <<SubSeq(toks, i, k), <<toks[p]>>, <<toks[q]>>>>

\* [p.strip() for p in user_location.split(',') if p.strip()]
RECURSIVE SplitCommas(_)
SplitCommas(toks) ==
    LET commas == {i \in 1..Len(toks) : toks[i] = ","}
        i == CHOOSE x \in commas : \A y \in commas : x <= y
        rest == SplitCommas(SubSeq(toks, i + 1, Len(toks)))
    IN  IF toks = <<>> THEN <<>>
        ELSE IF commas = {} THEN <<toks>>
        ELSE IF i = 1 THEN rest
        ELSE <<SubSeq(toks, 1, i - 1)>> \o rest

\* the address taken from the user's location label
AddressFromLocation(user_location) ==
    LET parts == SplitCommas(user_location)
        n == Len(parts)
    IN  IF n >= 2 THEN <<<<>>, parts[n - 1], parts[n]>>
        ELSE IF n = 1 THEN <<<<>>, <<>>, parts[1]>>
        ELSE <<>>

\* _norm_tokens: the words of a text (maximal runs of letters), each
\* without the first suffix of the list that it ends with and that leaves
\* more than two letters; s is a sequence of lower-case characters.
norm_tokens(s) ==
    LET suf == << <<"e", "r", "s">>, <<"m", "e", "n", "t", "s">>,
                  <<"m", "e", "n", "t">>, <<"i", "n", "g">>, <<"e", "r", "s">>,
                  <<"e", "r">>, <<"e", "d">>, <<"s">> >>
        ends(w, k) == /\ Len(w) > Len(suf[k]) + 2
                      /\ SubSeq(w, Len(w) - Len(suf[k]) + 1, Len(w)) = suf[k]
        strip(w) == IF \E k \in 1..Len(suf) : ends(w, k)
                    THEN SubSeq(w, 1, Len(w) - Len(suf[CHOOSE k \in 1..Len(suf) :
                                           /\ ends(w, k)
                                           /\ \A j \in 1..(k - 1) : ~ ends(w, j)]))
                    ELSE w
    IN  {strip(SubSeq(s, i, j)) :
            <<i, j>> \in {x \in (1..Len(s)) \X (1..Len(s)) :
                            /\ x[1] <= x[2]
                            /\ \A k \in x[1]..x[2] : s[k] \in Letter
                            /\ x[1] = 1 \/ s[x[1] - 1] \notin Letter
                            /\ x[2] = Len(s) \/ s[x[2] + 1] \notin Letter}}

\* The fields found in a message: "" or <<>> marks a field that is absent
\* from the result; raises is TRUE where the date parser raises.
extract_booking_entities(text, user_location) ==
    The({[service |-> ServiceIn(text),
          issue |-> IssueIn(text),
          date_time |-> IF dt.kind = "ok" THEN isoformat(dt.dt) ELSE <<>>,
          address |-> IF address # <<>> THEN address
                      ELSE AddressFromLocation(user_location),
          raises |-> dt.kind = "error"]
         : dt \in {parse_natural_datetime(text)}, address \in {AddressIn(text)}})

\* ------------------------------------------------------------ documents

\* A user document: name and location are texts (<<>> for None or unset),
\* coords the stored point (a position in meters on a line, None for
\* none), addresses the saved addresses.
NewUser ==
    [name |-> <<>>, location |-> <<>>, coords |-> None, policy_agreed |-> FALSE,
     pending_field |-> "", addresses |-> <<>>]

\* A booking draft; present is FALSE when the conversation has no
\* booking_draft field.  provider_id 0 stands for no provider.
NoDraft ==
    [present |-> FALSE, service |-> "", issue |-> <<>>, date_time |-> <<>>,
     address |-> <<>>, provider_id |-> 0, provider_name |-> <<>>]

\* A conversation document; messages keeps the entries of the last turn
\* (the handler never reads the log to decide anything).
NewConversation(phone) ==
    [phone |-> phone, status |-> "open", messages |-> <<>>,
     booking_draft |-> NoDraft, booking_state |-> "",
     provider_options |-> <<>>, address_options |-> <<>>]

\* the fields of a draft, without the presence mark (the dict the code compares)
Fields(d) == [d EXCEPT !.present = TRUE]

\* ------------------------------------------------ _is_provider_available

\* an overlap test that counts touching intervals
Overlaps_closed(b, start_dt, end_dt) ==
    /\ b.start # None /\ b.end # None
    /\ b.start <= end_dt /\ b.end >= start_dt

\* the query {"start": {"$lt": end}, "end": {"$gt": start}}: a comparison
\* with a null field never matches
Overlaps(b, start_dt, end_dt) ==
    /\ b.start # None /\ b.end # None
    /\ b.start < end_dt /\ b.end > start_dt

\* a commit that skips the availability query
is_provider_available_unchecked(bks, provider_id, start_dt, end_dt) == TRUE

is_provider_available(bks, provider_id, start_dt, end_dt) ==
    IF provider_id = 0 \/ start_dt = None \/ end_dt = None THEN TRUE
    ELSE ~ \E i \in 1..Len(bks) :
             bks[i].provider_id = provider_id /\ Overlaps(bks[i], start_dt, end_dt)

\* ------------------------------------------------ _find_nearby_providers

Abs(x) == IF x < 0 THEN 0 - x ELSE x

\* the positions of the documents of a collection that satisfy a filter
RECURSIVE Positions(_, _)
Positions(n, ok) ==
    IF n = 0 THEN <<>>
    ELSE IF n \in ok THEN Append(Positions(n - 1, ok), n)
    ELSE Positions(n - 1, ok)

FirstN(seq, n) == SubSeq(seq, 1, IF Len(seq) < n THEN Len(seq) ELSE n)

\* a sort key that puts the rating before the availability
KeyLess_rating_first(a, b) ==
    LET ka == IF a.available THEN 0 ELSE 1
        kb == IF b.available THEN 0 ELSE 1
    IN  \/ a.rating > b.rating
        \/ a.rating = b.rating /\ ka < kb

\* sort_key: (0 if available else 1, -rating, distance or infinity)
KeyLess(a, b) ==
    LET ka == IF a.available THEN 0 ELSE 1
        kb == IF b.available THEN 0 ELSE 1
    IN  \/ ka < kb
        \/ ka = kb /\ a.rating > b.rating
        \/ /\ ka = kb /\ a.rating = b.rating
           /\ a.distance_m # None
           /\ (b.distance_m = None \/ a.distance_m < b.distance_m)

\* list.sort(key=sort_key): a stable sort
RECURSIVE InsertSorted(_, _)
InsertSorted(seq, x) ==
    IF seq = <<>> THEN <<x>>
    ELSE IF KeyLess(x, seq[Len(seq)])
         THEN Append(InsertSorted(SubSeq(seq, 1, Len(seq) - 1), x), seq[Len(seq)])
         ELSE Append(seq, x)

RECURSIVE SortByKey(_)
SortByKey(seq) ==
    IF seq = <<>> THEN <<>>
    ELSE InsertSorted(SortByKey(SubSeq(seq, 1, Len(seq) - 1)), seq[Len(seq)])

\* $geoNear: the matching providers within max_distance_m, nearest first
RECURSIVE NearestFirst(_, _, _)
NearestFirst(provs, idx, coords) ==
    IF idx = <<>> THEN <<>>
    ELSE LET rest == NearestFirst(provs, SubSeq(idx, 1, Len(idx) - 1), coords)
             x == idx[Len(idx)]
             d(i) == Abs(provs[i].coverage_coords - coords)
             before == {k \in 1..Len(rest) : d(rest[k]) <= d(x)}
             n == Cardinality(before)
         IN  SubSeq(rest, 1, n) \o <<x>> \o SubSeq(rest, n + 1, Len(rest))

\* a query that matches the service only
qry_any_status(provs, service) ==
    {i \in 1..Len(provs) : provs[i].service_type = <<service>>}

\* qry = {"active": True, "service_type": service}, the filter of the
\* $geoNear stage and of both find calls
qry(provs, service) ==
    {i \in 1..Len(provs) :
        provs[i].active /\ provs[i].service_type = <<service>>}

find_nearby_providers(provs, bks, service, u, desired_start) ==
    LET near == {i \in qry(provs, service) :
                             /\ provs[i].coverage_coords # None
                             /\ Abs(provs[i].coverage_coords - u.coords)
                                    <= max_distance_m}
        geo == FirstN(NearestFirst(provs, Positions(Len(provs), near), u.coords),
                      query_limit)
        plain == FirstN(Positions(Len(provs), qry(provs, service)), query_limit)
        useGeo == u.coords # None /\ geo # <<>>
        results == IF useGeo THEN geo ELSE plain
        desired_end == IF desired_start = None THEN None
                       ELSE desired_start + slot_minutes
        enriched ==
            [k \in 1..Len(results) |->
                LET pv == provs[results[k]]
                IN  [id |-> pv.id, name |-> pv.name,
                     rating |-> IF pv.rating = None THEN 0 ELSE pv.rating,
                     distance_m |-> IF useGeo
                                    THEN Abs(pv.coverage_coords - u.coords)
                                    ELSE None,
                     available |-> IF desired_start # None
                                   THEN is_provider_available(bks, pv.id,
                                            desired_start, desired_end)
                                   ELSE TRUE]]
    IN  IF service = "" THEN <<>>
        ELSE FirstN(SortByKey(enriched), shortlist_len)

\* ------------------------------------------------- _get_default_address

get_default_address(u) ==
    LET addrs == u.addresses
        defs == {i \in 1..Len(addrs) : addrs[i].is_default}
        a == IF defs # {} THEN addrs[CHOOSE i \in defs : \A j \in defs : i <= j]
             ELSE addrs[1]
    IN  IF addrs = <<>> THEN <<>>
        ELSE IF a.street # <<>> \/ a.suburb # <<>> \/ a.city # <<>>
             THEN <<a.street, a.suburb, a.city>>
             ELSE <<>>

\* ------------------------------------------------------ store operations

\* db is the record of the four collections.  users maps a phone to its
\* document; providers, conversations and bookings are in insertion order,
\* and a conversation's session_id and a provider's _id are positions.

\* $push of a message; the entry of the user's message starts the turn
Push(db, cid, role, text) ==
    [db EXCEPT !.conversations[cid].messages =
        IF role = "user" THEN <<role>> ELSE Append(@, role)]

\* a return that leaves the reply out of the log
Say_nothing(db, cid, text) == db

\* the reply pushed onto the log, as every return path does
Say(db, cid, text) == Push(db, cid, "assistant", text)

\* _log_and_close
log_and_close(db, cid) == [db EXCEPT !.conversations[cid].status = "closed"]

\* find_one({"phone": phone, "status": {"$ne": "closed"}}); 0 when none
OpenConv(convs, phone) ==
    LET open == {i \in 1..Len(convs) :
                    convs[i].phone = phone /\ convs[i].status # "closed"}
    IN  IF open = {} THEN 0 ELSE CHOOSE i \in open : \A j \in open : i <= j

\* providers.find_one({"phone": phone}); 0 when none
ProviderOf(provs, phone) ==
    LET mine == {i \in 1..Len(provs) : provs[i].phone = phone}
    IN  IF mine = {} THEN 0 ELSE CHOOSE i \in mine : \A j \in mine : i <= j

\* reverse_geocode(lat, lng) or f"{lat},{lng}"
GeoLabel(env) == IF env.geo THEN <<"geocoded", "label">> ELSE <<"lat", ",", "lng">>

YesWords == {<<"yes">>, <<"y">>, <<"agree">>, <<"i", "agree">>}

\* the result of a stage of the handler: ret is TRUE when the handler
\* returns there, with the reply it returns; ins is the booking document
\* the handler is about to insert (<<>> for none)
Return(db, cid, reply) == [ret |-> TRUE, db |-> Say(db, cid, reply), reply |-> reply, ins |-> <<>>, cid |-> cid]

Continue(db, cid) == [ret |-> FALSE, db |-> db, reply |-> <<>>, ins |-> <<>>, cid |-> cid]

\* ------------------------------------------- what a message is read as

confirm_words ==
    {<<"yes">>, <<"y">>, <<"confirm">>, <<"ok">>, <<"okay">>, <<"go", "ahead">>, <<"sure">>}

cancel_words == {<<"no">>, <<"n">>, <<"cancel">>, <<"stop">>}

\* re.search(r"\b([1-9])\b", lm): the digit found at character k of token i
IsChoiceAt(toks, i, k) ==
    LET c == Spell[toks[i]]
    IN  /\ c[k] \in Digit \ {"0"}
        /\ (k = 1 \/ c[k - 1] \notin WordChar)
        /\ (k = Len(c) \/ c[k + 1] \notin WordChar)

\* the leftmost such digit, 0 when the text has none
Choice(toks) ==
    LET hits == {i \in 1..Len(toks) : \E k \in 1..Len(Spell[toks[i]]) : IsChoiceAt(toks, i, k)}
        i == CHOOSE x \in hits : \A y \in hits : x <= y
        ks == {k \in 1..Len(Spell[toks[i]]) : IsChoiceAt(toks, i, k)}
        k == CHOOSE x \in ks : \A y \in ks : x <= y
    IN  IF hits = {} THEN 0 ELSE DigitVal[Spell[toks[i]][k]]

\* "recommend" in lm or "choose for me" in lm or "pick for me" in lm
AsksRecommend(toks) ==
    \/ Contains(Chars(toks), Lit(<<"recommend">>))
    \/ Contains(Chars(toks), Lit(<<"choose", "for", "me">>))
    \/ Contains(Chars(toks), Lit(<<"pick", "for", "me">>))

\* any((lm == w) or lm.startswith(w) for w in confirm_words)
IsConfirm(toks) == \E w \in confirm_words : StartsWith(Chars(toks), Lit(w))

IsCancel(toks) == toks \in cancel_words

\* lines 787: any(g in lm for g in ("hi", "hello", ...))
IsGreeting(toks) ==
    \E g \in {"hi", "hello", "hey", "hie", "morning", "afternoon", "evening"} :
        Contains(Chars(toks), Spell[g])


\* ------------------------------------------------------------ the texts

\* the messages of the customer
m_full ==
    <<"need", "a", "plumber", "for", "a", "leak", "tomorrow", "at", "3pm",
      "at", "12", "main", ",", "north", ",", "city">>

m_service == <<"plumber", "for", "a", "leak">>

\* a message that gives the time and nothing else
m_time == <<"tomorrow", "at", "3pm">>

\* a message with a day word and an hour that is out of range
m_malformed == <<"tomorrow", "at", "13pm">>

HomeLocation == <<"north", ",", "city">>

\* every text a run sends or stores as a location
Texts ==
    {m_full, m_service, <<"1">>, <<"2">>, <<"yes">>, <<"no">>, <<"/reset">>,
     <<"alice">>, HomeLocation, <<>>, <<"hi">>, <<"/profile">>, <<"/end">>, m_time,
     m_malformed, <<"register", "provider">>, <<"plumber">>, <<"go", "live">>,
     <<"plumbing">>, <<"ok", "but", "change", "the", "time">>,
     <<"tomorrow", "at", "11am">>}

\* What the handler reads off a message, computed once for each text.
Read ==
    [t \in Texts |->
        [slash |-> t # <<>> /\ Spell[t[1]][1] = "/",
         provider_status |-> StartsWith(Chars(t), Lit(<<"/provider", "status">>)),
         register |-> /\ Contains(Chars(t), Lit(<<"register">>))
                      /\ Contains(Chars(t), Lit(<<"provider">>)),
         go_live |-> Contains(Chars(t), Lit(<<"go", "live">>)),
         choice |-> Choice(t),
         recommend |-> AsksRecommend(t),
         confirm |-> IsConfirm(t),
         greeting |-> IsGreeting(t)]]

\* _extract_booking_entities, computed once for each message and location
Extracted == [t \in Texts, loc \in Texts |-> extract_booking_entities(t, loc)]

\* ---------------------------------------------- chat: lines 329 to 357

\* the open conversation of the phone, created when there is none, and
\* the user's message pushed onto its log
\* an open stage that creates a conversation for every message
OpenStage_always_new(db, in_) ==
    Continue(Push([db EXCEPT !.conversations = Append(@, NewConversation(in_.phone))],
                  Len(db.conversations) + 1, "user", in_.message),
             Len(db.conversations) + 1)

\* an open stage that takes the phone's latest conversation, closed or not
OpenStage_reuses_closed(db, in_) ==
    LET mine == {i \in 1..Len(db.conversations) : db.conversations[i].phone = in_.phone}
        cid == IF mine = {} THEN Len(db.conversations) + 1
               ELSE CHOOSE i \in mine : \A j \in mine : j <= i
        db1 == IF mine # {} THEN db
               ELSE [db EXCEPT !.conversations =
                        Append(@, NewConversation(in_.phone))]
    IN  Continue(Push(db1, cid, "user", in_.message), cid)

\* lines 333-356 for a lookup that returned conversation `found' (0: none)
OpenStageFound(db, in_, found) ==
    LET cid == IF found # 0 THEN found ELSE Len(db.conversations) + 1
        db1 == IF found # 0 THEN db
               ELSE [db EXCEPT !.conversations =
                        Append(@, NewConversation(in_.phone))]
    IN  Continue(Push(db1, cid, "user", in_.message), cid)

OpenStage(db, in_) ==
    OpenStageFound(db, in_, OpenConv(db.conversations, in_.phone))

\* ---------------------------------------------- chat: lines 361 to 404

\* a user stage that creates the user but leaves a pending answer unread
UserStage_no_answer(db, cid, in_, env) ==
    Continue([db EXCEPT !.users =
                 (in_.phone :> (IF in_.phone \in DOMAIN db.users
                                THEN db.users[in_.phone] ELSE NewUser)) @@ @],
             cid)

UserStage(db, cid, in_, env) ==
    LET phone == in_.phone
        u0 == IF phone \in DOMAIN db.users THEN db.users[phone] ELSE NewUser
        has_coords == in_.coords # None
        msg == in_.message
        u1 == IF has_coords /\ u0.location = <<>>
              THEN [u0 EXCEPT !.coords = in_.coords, !.location = GeoLabel(env)]
              ELSE IF ~has_coords /\ u0.location = <<>> /\ u0.coords # None
              THEN [u0 EXCEPT !.location = GeoLabel(env)]
              ELSE u0
        pending == u1.pending_field
        u2 == IF pending = "name" /\ msg # <<>>
              THEN [u1 EXCEPT !.name = msg, !.pending_field = ""]
              ELSE IF pending = "location" /\ (has_coords \/ msg # <<>>)
              THEN IF has_coords
                   THEN [u1 EXCEPT !.coords = in_.coords,
                                   !.location = GeoLabel(env),
                                   !.pending_field = ""]
                   ELSE [u1 EXCEPT !.location = msg, !.pending_field = ""]
              ELSE IF pending = "policy" /\ msg \in YesWords
              THEN [u1 EXCEPT !.policy_agreed = TRUE, !.pending_field = ""]
              ELSE u1
        db2 == [db EXCEPT !.users = (phone :> u2) @@ @]
    IN  IF pending = "policy" /\ msg \in YesWords
        THEN LET r == Return(db2, cid, <<"registration_complete">>)
             IN  [r EXCEPT !.db = log_and_close(r.db, cid)]
        ELSE Continue(db2, cid)

\* ---------------------------------------------- chat: lines 406 to 479

\* a reset that leaves the stored coordinates
reset_user_keeps_coords(u) ==
    [u EXCEPT !.name = <<>>, !.location = <<>>, !.policy_agreed = FALSE,
              !.pending_field = ""]

\* /reset on the user document: $set name, location, policy_agreed and
\* $unset pending_field, coords
reset_user(u) ==
    [u EXCEPT !.name = <<>>, !.location = <<>>, !.policy_agreed = FALSE,
              !.pending_field = "", !.coords = None]

CommandStage(db, cid, in_) ==
    LET phone == in_.phone
        msg == in_.message
        cmd == msg[1]
        u == db.users[phone]
        pi == ProviderOf(db.providers, phone)
    IN  IF ~Read[msg].slash THEN Continue(db, cid)
        ELSE IF cmd = "/reset"
        THEN LET u1 == reset_user(u)
                 db1 == [db EXCEPT !.users[phone] = u1]
                 db2 == IF pi = 0 THEN db1
                        ELSE [db1 EXCEPT !.providers[pi].pending_field = ""]
             IN  Return(db2, cid, <<"profile_reset">>)
        ELSE IF cmd = "/end"
        THEN LET r == Return(db, cid, <<"conversation_closed">>)
             IN  [r EXCEPT !.db = log_and_close(r.db, cid)]
        ELSE IF cmd = "/profile" THEN Return(db, cid, <<"profile">>)
        ELSE IF Read[msg].provider_status
        THEN Return(db, cid, <<"provider_status">>)
        ELSE IF cmd = "/bookings" THEN Return(db, cid, <<"bookings">>)
        ELSE Continue(db, cid)

\* ---------------------------------------------- chat: lines 481 to 527

\* the registration fields still missing, in the order they are asked
MissingFields(u) ==
    (IF u.name = <<>> THEN <<"name">> ELSE <<>>)
    \o (IF u.location = <<>> /\ u.coords = None THEN <<"location">> ELSE <<>>)
    \o (IF ~u.policy_agreed THEN <<"policy">> ELSE <<>>)

\* a registration stage that asks for the last missing field first
RegistrationStage_last_first(db, cid, in_, env) ==
    LET u == db.users[in_.phone]
        missing == MissingFields(u)
        next_field == missing[Len(missing)]
        reg_reply == IF env.llm THEN <<"llm">> ELSE <<"ask", next_field>>
        db1 == [db EXCEPT !.users[in_.phone].pending_field = next_field]
    IN  IF missing = <<>> THEN Continue(db, cid)
        ELSE Return(db1, cid, reg_reply)

RegistrationStage(db, cid, in_, env) ==
    LET u == db.users[in_.phone]
        missing == MissingFields(u)
        next_field == missing[1]
        reg_reply == IF env.llm THEN <<"llm">> ELSE <<"ask", next_field>>
        db1 == [db EXCEPT !.users[in_.phone].pending_field = next_field]
    IN  IF missing = <<>> THEN Continue(db, cid)
        ELSE Return(db1, cid, reg_reply)

\* ---------------------------------------------- chat: lines 528 to 602

\* a provider document that is live from the start
NewProvider_live(id, phone) ==
    [id |-> id, phone |-> phone, name |-> <<>>, service_type |-> <<>>,
     coverage |-> <<>>, coverage_coords |-> None, active |-> TRUE,
     policy_agreed |-> FALSE, pending_field |-> "name", rating |-> None]

\* A provider document as the onboarding inserts it.  It has no rating;
\* coverage_coords is a position like the user's coords.
NewProvider(id, phone) ==
    [id |-> id, phone |-> phone, name |-> <<>>, service_type |-> <<>>,
     coverage |-> <<>>, coverage_coords |-> None, active |-> FALSE,
     policy_agreed |-> FALSE, pending_field |-> "name", rating |-> None]

ProviderStage(db, cid, in_, env) ==
    LET phone == in_.phone
        msg == in_.message
        pi == ProviderOf(db.providers, phone)
        start_provider == Read[msg].register
        pending_p == IF pi = 0 THEN "" ELSE db.providers[pi].pending_field
        has_coords == in_.coords # None
        Closed(r) == [r EXCEPT !.db = log_and_close(r.db, cid)]
    IN  IF start_provider /\ pi = 0
        THEN Return([db EXCEPT !.providers =
                        Append(@, NewProvider(Len(db.providers) + 1, phone))],
                    cid, <<"provider_ask_name">>)
        ELSE IF pi # 0 /\ pending_p = "name" /\ msg # <<>>
        THEN Return([db EXCEPT !.providers[pi].name = msg,
                               !.providers[pi].pending_field = "service_type"],
                    cid, <<"provider_ask_service">>)
        ELSE IF pi # 0 /\ pending_p = "service_type" /\ msg # <<>>
        THEN Return([db EXCEPT !.providers[pi].service_type = msg,
                               !.providers[pi].pending_field = "coverage"],
                    cid, <<"provider_ask_coverage">>)
        ELSE IF pi # 0 /\ pending_p = "coverage" /\ (has_coords \/ msg # <<>>)
        THEN Return(IF has_coords
                    THEN [db EXCEPT !.providers[pi].coverage = GeoLabel(env),
                                    !.providers[pi].coverage_coords = in_.coords,
                                    !.providers[pi].pending_field = "policy"]
                    ELSE [db EXCEPT !.providers[pi].coverage = msg,
                                    !.providers[pi].pending_field = "policy"],
                    cid, <<"provider_ask_policy">>)
        ELSE IF pi # 0 /\ pending_p = "policy"
        THEN IF msg \in YesWords
             THEN Return([db EXCEPT !.providers[pi].policy_agreed = TRUE,
                                    !.providers[pi].pending_field = "activate"],
                         cid, <<"provider_registered">>)
             ELSE Return(db, cid, <<"provider_must_agree">>)
        ELSE IF pi # 0 /\ pending_p = "activate" /\ msg \in {<<"yes">>, <<"y">>}
        THEN Closed(Return([db EXCEPT !.providers[pi].active = TRUE,
                                      !.providers[pi].pending_field = ""],
                           cid, <<"provider_live">>))
        ELSE IF pi # 0 /\ pending_p = "activate" /\ msg \in {<<"no">>, <<"n">>}
        THEN Closed(Return([db EXCEPT !.providers[pi].active = FALSE,
                                      !.providers[pi].pending_field = ""],
                           cid, <<"provider_not_live">>))
        ELSE IF /\ pi # 0 /\ pending_p = "activate"
                /\ Read[msg].go_live
        THEN Closed(Return([db EXCEPT !.providers[pi].active = TRUE,
                                      !.providers[pi].pending_field = ""],
                           cid, <<"provider_now_live">>))
        ELSE Continue(db, cid)

\* ---------------------------------------------- chat: lines 604 to 874

\* the address the commit takes from the user's location (lines 699-702)
AddressAtCommit(user_location) ==
    LET parts == SplitCommas(user_location)
        n == Len(parts)
    IN  <<<<>>, IF n >= 2 THEN parts[n - 1] ELSE <<>>, IF n >= 1 THEN parts[n] ELSE <<>>>>

\* merge-if-absent of the extracted fields into the draft (lines 758-761)
\* a merge in which the newly extracted value replaces the stored one
MergeExtracted_overwrite(draft, ex) ==
    [draft EXCEPT
        !.service = IF ex.service # "" THEN ex.service ELSE @,
        !.issue = IF ex.issue # <<>> THEN ex.issue ELSE @,
        !.date_time = IF ex.date_time # <<>> THEN ex.date_time ELSE @,
        !.address = IF ex.address # <<>> THEN ex.address ELSE @]

MergeExtracted(draft, ex) ==
    [draft EXCEPT
        !.service = IF @ = "" THEN ex.service ELSE @,
        !.issue = IF @ = <<>> THEN ex.issue ELSE @,
        !.date_time = IF @ = <<>> THEN ex.date_time ELSE @,
        !.address = IF @ = <<>> THEN ex.address ELSE @]

\* the options stored for a provider list or an address list
ProviderOption(pv) == [id |-> pv.id, name |-> IF pv.name = <<>> THEN <<"Provider">> ELSE pv.name]

AddressOption(a) == <<a.street, a.suburb, a.city>>

StartOf(draft) == IF draft.date_time = <<>> THEN None ELSE fromisoformat(draft.date_time)

\* $set of the draft and the state of a conversation
SetDraft(db, cid, draft, state) ==
    [db EXCEPT !.conversations[cid].booking_draft = [draft EXCEPT !.present = TRUE],
               !.conversations[cid].booking_state = state]

\* lines 606-628: the conversation's fields read at the start of the branch
\* and a numbered address choice.  Gives the store and the handler's local
\* draft, bstate and prov_opts after it.
AddressChoice(db, cid, in_) ==
    LET conv == db.conversations[cid]
        draft == conv.booking_draft
        addr_opts == conv.address_options
        sel == Read[in_.message].choice
        asked == \/ conv.booking_state = "awaiting_address_choice"
                 \/ (addr_opts # <<>> /\ draft.address = <<>>)
        merged == [draft EXCEPT !.address = addr_opts[sel]]
    IN  IF asked /\ sel # 0 /\ sel <= Len(addr_opts)
        THEN [db |-> [db EXCEPT
                        !.conversations[cid].booking_draft = [merged EXCEPT !.present = TRUE],
                        !.conversations[cid].address_options = <<>>],
              draft |-> merged, bstate |-> "", prov_opts |-> conv.provider_options]
        ELSE [db |-> db, draft |-> draft, bstate |-> conv.booking_state,
              prov_opts |-> conv.provider_options]

\* lines 630-637: the local draft with the saved default address filled in
AutofillAddress(db, in_, draft) ==
    IF draft.address = <<>> /\ get_default_address(db.users[in_.phone]) # <<>>
    THEN [draft EXCEPT !.address = get_default_address(db.users[in_.phone])]
    ELSE draft

\* lines 638-655: several saved addresses and none usable as the default
AsksAddress(db, in_, draft) ==
    /\ draft.address = <<>>
    /\ get_default_address(db.users[in_.phone]) = <<>>
    /\ Len(db.users[in_.phone].addresses) > 1

AskAddress(db, cid, in_, draft) ==
    LET addrs == FirstN(db.users[in_.phone].addresses, 9)
        opts == [i \in 1..Len(addrs) |-> AddressOption(addrs[i])]
        db1 == [SetDraft(db, cid, draft, "awaiting_address_choice")
                   EXCEPT !.conversations[cid].address_options = opts]
    IN  Return(db1, cid, <<"choose_address">>)

\* a provider choice that always takes the last option of the list
ProviderChoice_last(in_, draft, bstate, prov_opts) ==
    IF ~ (bstate = "awaiting_provider_choice"
          \/ (prov_opts # <<>> /\ draft.provider_id = 0))
    THEN 0
    ELSE IF Read[in_.message].recommend \/ Read[in_.message].choice # 0
    THEN Len(prov_opts)
    ELSE 0

\* lines 657-667: the position of the chosen provider option, 0 for none
ProviderChoice(in_, draft, bstate, prov_opts) ==
    LET sel == Read[in_.message].choice
    IN  IF ~ (bstate = "awaiting_provider_choice"
              \/ (prov_opts # <<>> /\ draft.provider_id = 0))
        THEN 0
        ELSE IF Read[in_.message].recommend
        THEN (IF prov_opts # <<>> THEN 1 ELSE 0)
        ELSE IF sel # 0 /\ sel <= Len(prov_opts) THEN sel
        ELSE 0

\* lines 668-694: the chosen provider is merged into the draft
TakeProvider(db, cid, draft, chosen) ==
    LET merged == [draft EXCEPT !.provider_id = chosen.id,
                                !.provider_name = chosen.name]
        db1 == [db EXCEPT
                  !.conversations[cid].booking_draft = [merged EXCEPT !.present = TRUE],
                  !.conversations[cid].provider_options = <<>>]
        complete == /\ merged.service # "" /\ merged.issue # <<>>
                    /\ merged.date_time # <<>> /\ merged.provider_id # 0
    IN  IF complete
        THEN Return([db1 EXCEPT !.conversations[cid].booking_state = "awaiting_confirm"],
                    cid, <<"confirm_summary">>)
        ELSE Return(SetDraft(db1, cid, merged, "collecting"),
                    cid, <<"provider_selected">>)

\* a commit for the chosen provider without the availability re-check
ConfirmBooking_no_recheck(db, cid, in_, draft) ==
    [ret |-> TRUE, db |-> db, reply |-> <<"booked">>, cid |-> cid,
     ins |-> <<[user_id |-> in_.phone, provider_id |-> draft.provider_id,
                start |-> StartOf(draft),
                end |-> IF StartOf(draft) = None THEN None
                        ELSE StartOf(draft) + slot_minutes,
                notes |-> draft.issue, service |-> draft.service,
                address |-> draft.address]>>]

\* lines 697-749: an affirmative reply in awaiting_confirm.  The result
\* carries the booking document in ins when the handler goes on to insert.
ConfirmBooking(db, cid, in_, draft) ==
    The({The({The({The({
        IF busy /\ alts = <<>>
        THEN Return(SetDraft(db, cid, merged, "collecting"),
                    cid, <<"no_providers_available">>)
        ELSE [ret |-> TRUE, db |-> db, reply |-> <<"booked">>, cid |-> cid,
              ins |-> <<[user_id |-> in_.phone,
                         provider_id |-> IF busy THEN alts[1].id
                                         ELSE merged.provider_id,
                         start |-> start_dt,
                         end |-> IF start_dt = None THEN None
                                 ELSE start_dt + slot_minutes,
                         notes |-> merged.issue, service |-> merged.service,
                         address |-> merged.address]>>]
        : alts \in {IF busy
                    THEN SelectSeq(find_nearby_providers(db.providers, db.bookings,
                                       merged.service, db.users[in_.phone], start_dt),
                                   LAMBDA p : p.available /\ p.id # merged.provider_id)
                    ELSE <<>>}})
        : busy \in {start_dt # None /\ merged.provider_id # 0
                    /\ ~ is_provider_available(db.bookings, merged.provider_id, start_dt,
                                               start_dt + slot_minutes)}})
        : start_dt \in {StartOf(merged)}})
        : merged \in {IF draft.address = <<>> /\ db.users[in_.phone].location # <<>>
                      THEN [draft EXCEPT !.address =
                               AddressAtCommit(db.users[in_.phone].location)]
                      ELSE draft}})

\* a cancel that resets the state and leaves the draft on the conversation
CancelBooking_keeps_draft(db, cid) ==
    Return([db EXCEPT !.conversations[cid].booking_state = ""], cid, <<"cancelled">>)

\* lines 750-755: a negative reply in awaiting_confirm
CancelBooking(db, cid) ==
    Return([db EXCEPT !.conversations[cid].booking_draft = NoDraft,
                      !.conversations[cid].booking_state = ""],
           cid, <<"cancelled">>)

\* A model id is <<name, suffixed>>: suffixed tells whether the id ends
\* with "-v1:0"; <<>> is the empty id.  _variants: the id and the same id
\* with the suffix removed or added.
variants(mid) == IF mid = <<>> THEN <<>> ELSE <<mid, <<mid[1], ~ mid[2]>>>>

\* the candidates without the de-duplication
model_candidates_repeated(fast, settings) ==
    IF fast THEN variants(settings.fast)
    ELSE variants(settings.model) \o variants(<<"haiku", FALSE>>)

\* model_candidates: the variants of the configured id (and of the
\* built-in haiku id when not fast), empty ids and repetitions dropped,
\* the order kept
model_candidates(fast, settings) ==
    LET mc == model_candidates_repeated(fast, settings)
        keep == {i \in 1..Len(mc) :
                    mc[i] # <<>> /\ \A j \in 1..(i - 1) : mc[j] # mc[i]}
    IN  [k \in 1..Cardinality(keep) |->
            mc[CHOOSE i \in keep : Cardinality({j \in keep : j <= i}) = k]]

\* The loop over the candidates: answers tells for each id whether
\* converse raises, returns empty text or returns text.  called is the
\* sequence of ids converse was called with, answered whether the loop
\* ended with a reply.
try_candidates(fast, settings, answers) ==
    LET cands == model_candidates(fast, settings)
        good == {k \in 1..Len(cands) : answers[cands[k]] = "text"}
        first == CHOOSE k \in good : \A j \in good : k <= j
    IN  IF good = {} THEN [candidates |-> cands, called |-> cands, answered |-> FALSE]
        ELSE [candidates |-> cands, called |-> SubSeq(cands, 1, first),
              answered |-> TRUE]

\* the reply of _llm_natural_reply: the model's text, or its fixed fallback
llm_natural_reply(env) == IF env.llm THEN <<"llm">> ELSE <<"share_more">>

\* lines 757-874: extraction, merge, provider list, confirmation summary.
\* draft is the handler's local draft, prov_opts the options read from the
\* conversation at the start of the branch.
ExtractStage(db, cid, in_, env, draft, prov_opts) ==
    The({The({The({
        IF extracted.raises
        THEN \* ValueError out of the date parser: the turn ends without a reply
             [ret |-> TRUE, db |-> db, reply |-> <<"error">>, ins |-> <<>>, cid |-> cid]
        ELSE IF merged.service = ""
        THEN \* lines 763-785: the service is unknown; nothing is stored
             Return(db, cid, <<"need_details">>)
        ELSE IF merged.service = "" /\ Read[in_.message].greeting
        THEN Return(db, cid, llm_natural_reply(env))
        ELSE IF merged.provider_id = 0 /\ prov_opts = <<>> /\ provs # <<>>
        THEN Return([SetDraft(db, cid, merged, "awaiting_provider_choice")
                        EXCEPT !.conversations[cid].provider_options =
                                   [k \in 1..Len(provs) |-> ProviderOption(provs[k])]],
                    cid, llm_natural_reply(env))
        ELSE The({
            IF merged.issue # <<>>
            THEN \* line 841: missing is the registration list, empty here
                 Return([db1 EXCEPT !.conversations[cid].booking_state = "awaiting_confirm"],
                        cid, <<"confirm_summary">>)
            ELSE Continue(db1, cid)
            : db1 \in {IF Fields(merged) # Fields(draft)
                       THEN SetDraft(db, cid, merged, "collecting")
                       ELSE db}})
        : provs \in {find_nearby_providers(db.providers, db.bookings, merged.service,
                                           db.users[in_.phone], StartOf(merged))}})
        : merged \in {MergeExtracted(draft, extracted)}})
        : extracted \in {Extracted[in_.message, db.users[in_.phone].location]}})

\* a booking branch that takes an affirmative word as the commit trigger
\* in any booking state
BookingStage_any_state(db, cid, in_, env) ==
    LET prov_opts == db.conversations[cid].provider_options
        a == AddressChoice(db, cid, in_)
        draft == AutofillAddress(a.db, in_, a.draft)
    IN  IF Read[in_.message].confirm
        THEN ConfirmBooking(a.db, cid, in_, draft)
        ELSE ExtractStage(a.db, cid, in_, env, draft, prov_opts)

\* the booking branch of the handler
BookingStage(db, cid, in_, env) ==
    The({The({The({
        IF AsksAddress(a.db, in_, a.draft)
        THEN AskAddress(a.db, cid, in_, a.draft)
        ELSE IF chosen # 0
        THEN TakeProvider(a.db, cid, draft, a.prov_opts[chosen])
        ELSE IF a.bstate = "awaiting_confirm" /\ Read[in_.message].confirm
        THEN ConfirmBooking(a.db, cid, in_, draft)
        ELSE IF a.bstate = "awaiting_confirm" /\ IsCancel(in_.message)
        THEN CancelBooking(a.db, cid)
        ELSE ExtractStage(a.db, cid, in_, env, draft, a.prov_opts)
        : chosen \in {ProviderChoice(in_, draft, a.bstate, a.prov_opts)}})
        : draft \in {AutofillAddress(a.db, in_, a.draft)}})
        : a \in {AddressChoice(db, cid, in_)}})

\* lines 876-919: the free-form reply of the model, or local_reply
FallbackStage(db, cid, env) ==
    Return(db, cid, IF env.llm THEN <<"llm">> ELSE <<"local_reply">>)

\* ------------------------------------------------------------------ chat

\* The handler up to the point where it returns or is about to insert a
\* booking (line 737).
\* the turn after the conversation is chosen and the message logged
ChatAfterOpen(opened, in_, env) ==
    The({The({IF s1.ret THEN s1 ELSE
    The({IF s2.ret THEN s2 ELSE
    The({IF s3.ret THEN s3 ELSE
    The({IF s4.ret THEN s4 ELSE
    The({IF s5.ret THEN s5 ELSE FallbackStage(s5.db, s5.cid, env)
        : s5 \in {BookingStage(s4.db, s4.cid, in_, env)}})
        : s4 \in {ProviderStage(s3.db, s3.cid, in_, env)}})
        : s3 \in {RegistrationStage(s2.db, s2.cid, in_, env)}})
        : s2 \in {CommandStage(s1.db, s1.cid, in_)}})
        : s1 \in {UserStage(s0.db, s0.cid, in_, env)}})
        : s0 \in {opened}})

ChatUntilInsert(db, in_, env) == ChatAfterOpen(OpenStage(db, in_), in_, env)

\* an insert that leaves the negotiation fields on the conversation
\* an insert that looks for a conflicting booking once more and drops the
\* document when there is one
insert_one_if_free(bks, doc) ==
    IF \E i \in 1..Len(bks) :
           /\ bks[i].provider_id = doc.provider_id
           /\ doc.start # None
           /\ Overlaps(bks[i], doc.start, doc.end)
    THEN bks
    ELSE Append(bks, doc)

\* db.bookings.insert_one: the document is stored, whatever the collection
\* holds by then
insert_one(bks, doc) == Append(bks, doc)

InsertBooking_keeps_state(db, r) ==
    Say([db EXCEPT !.bookings = insert_one(@, r.ins[1])], r.cid, r.reply)

\* lines 737-749: the insert, the clearing of the conversation, the reply
InsertBooking(db, r) ==
    LET db1 == [db EXCEPT !.bookings = insert_one(@, r.ins[1]),
                          !.conversations[r.cid].booking_draft = NoDraft,
                          !.conversations[r.cid].booking_state = "",
                          !.conversations[r.cid].provider_options = <<>>]
    IN  Say(db1, r.cid, r.reply)

\* the store after the whole turn
chat(db, in_, env) ==
    LET r == ChatUntilInsert(db, in_, env)
    IN  IF r.ins = <<>> THEN r.db ELSE InsertBooking(r.db, r)

\* ------------------------------------------------------- create_booking

\* a conflict query that forgets the provider_id filter
HasConflict_any_provider(bks, req) ==
    \E i \in 1..Len(bks) : Overlaps(bks[i], req.start, req.end)

\* bookings.py: the conflict query of create_booking
HasConflict(bks, req) ==
    \E i \in 1..Len(bks) :
        bks[i].provider_id = req.provider_id /\ Overlaps(bks[i], req.start, req.end)

\* the document create_booking inserts: the request's own fields
BookingOf(req) ==
    [user_id |-> req.user_id, provider_id |-> req.provider_id,
     start |-> req.start, end |-> req.end, notes |-> req.notes,
     service |-> "", address |-> <<>>]

create_booking(bks, req) ==
    IF HasConflict(bks, req) THEN bks ELSE insert_one(bks, BookingOf(req))

\* ------------------------------------------------------------- the runs

\* The store the runs start from: two registered users, a customer
\* ("alice") and a provider-to-be ("bob") whose provider record waits for
\* the activation answer, and a second plumber that is live or not.
Alice == "alice"

Bob == "bob"


\* saved addresses whose first entry is blank, so that none is the default
BlankFirst ==
    <<[street |-> <<>>, suburb |-> <<>>, city |-> <<>>, is_default |-> FALSE],
      [street |-> <<"5", "oak">>, suburb |-> <<"north">>, city |-> <<"city">>,
       is_default |-> FALSE]>>

\* an address book with one usable address, not flagged as default
OneSaved ==
    <<[street |-> <<"5", "oak">>, suburb |-> <<"north">>, city |-> <<"city">>,
       is_default |-> FALSE]>>

Registered(name, addresses) ==
    [name |-> name, location |-> HomeLocation, coords |-> None,
     policy_agreed |-> TRUE, pending_field |-> "", addresses |-> addresses]

Plumber(id, phone, name, active, pending) ==
    [id |-> id, phone |-> phone, name |-> name, service_type |-> <<"plumber">>,
     coverage |-> HomeLocation, coverage_coords |-> None, active |-> active,
     policy_agreed |-> TRUE, pending_field |-> pending, rating |-> None]

Messages ==
    {m_full, m_service, <<"1">>, <<"yes">>, <<"no">>}

\* what a sender types next: the answer to the registration question asked,
\* or any message
Inputs(p) ==
    IF p = Bob
    THEN (IF providers[2].pending_field = "activate" THEN {<<"yes">>} ELSE {})
    ELSE IF users[p].pending_field = "name" THEN {<<"alice">>}
    ELSE IF users[p].pending_field = "location" THEN {HomeLocation}
    ELSE Messages

Envs == [llm : BOOLEAN, geo : {FALSE}]

\* the requests of the direct interface: one-hour slots around the time
\* the customer asks for (tomorrow 15:00 is minute 2340)
Requests ==
    {[user_id |-> "api", provider_id |-> pid, start |-> start_dt,
      end |-> start_dt + slot_minutes, notes |-> <<>>] :
        pid \in {1, 2}, start_dt \in {2280, 2310}} \ {[user_id |-> "api", provider_id |-> 2, start |-> 2280, end |-> 2280 + slot_minutes, notes |-> <<>>]}

NoRequest == [user_id |-> "", provider_id |-> 0, start |-> None, end |-> None, notes |-> <<>>]

Store == [users |-> users, providers |-> providers,
          conversations |-> conversations, bookings |-> bookings]

\* the booking state and draft of the conversation a message of p is
\* handled in, as they are when the message arrives
StateBefore(p) ==
    IF OpenConv(conversations, p) = 0
    THEN [state |-> "", draft |-> NoDraft]
    ELSE [state |-> conversations[OpenConv(conversations, p)].booking_state,
          draft |-> conversations[OpenConv(conversations, p)].booking_draft]

\* the sender is fully registered and not in the middle of the provider
\* onboarding as the message arrives
Ready(p) ==
    /\ p \in DOMAIN users
    /\ MissingFields(users[p]) = <<>>
    /\ users[p].pending_field = ""
    /\ ProviderOf(providers, p) # 0 => providers[ProviderOf(providers, p)].pending_field = ""

\* `last' records the operation handled last: its input, the conversation's
\* booking state and draft, whether the sender was ready for the booking
\* branch and the number of bookings before it, the booking document the
\* turn inserted, the reply, and the id returned.
NoOperation ==
    [op |-> "init", phone |-> "", msg |-> <<>>,
     pre |-> [state |-> "", draft |-> NoDraft], ready |-> FALSE, n |-> 0,
     ins |-> <<>>, reply |-> <<>>, req |-> NoRequest, id |-> 0, out |-> <<>>]

Init ==
    /\ users = (Alice :> Registered(<<"alice">>, <<>>))
               @@ (Bob :> Registered(<<"bob">>, <<>>))
    /\ \E live \in BOOLEAN :
           providers = <<Plumber(1, "pat", <<"pat">>, live, ""),
                         Plumber(2, Bob, <<"bob">>, FALSE, "activate")>>
    /\ conversations = <<[NewConversation(Alice) EXCEPT !.status = "closed"],
                          NewConversation(Bob)>>
    /\ bookings = <<>>
    /\ inflight = {}
    /\ last = NoOperation

\* One message handled from arrival to reply.
Chat(p, m, env) ==
    \E r \in {ChatUntilInsert(Store, [phone |-> p, message |-> m, coords |-> None], env)} :
    \E db \in {IF r.ins = <<>> THEN r.db ELSE InsertBooking(r.db, r)} :
        /\ inflight = {}
        /\ OpenConv(conversations, p) = 0 => Len(conversations) < MaxConvs
        /\ r.ins # <<>> => Len(bookings) < MaxBookings
        /\ users' = db.users
        /\ providers' = db.providers
        /\ conversations' = db.conversations
        /\ bookings' = db.bookings
        /\ last' = [NoOperation EXCEPT !.op = "chat", !.phone = p, !.msg = m,
                                       !.pre = StateBefore(p), !.ready = Ready(p),
                                       !.n = Len(bookings),
                                       !.ins = r.ins, !.reply = r.reply]
        /\ UNCHANGED inflight

\* One request of the direct interface handled from arrival to response.
CreateBooking(req) ==
    /\ inflight = {}
    /\ req.start < req.end
    /\ Len(bookings) < MaxBookings
    /\ bookings' = create_booking(bookings, req)
    /\ last' = [NoOperation EXCEPT
                   !.op = "create_booking", !.n = Len(bookings), !.req = req,
                   !.reply = IF HasConflict(bookings, req) THEN <<"409">>
                             ELSE <<"created">>,
                   !.id = IF HasConflict(bookings, req) THEN 0
                          ELSE Len(bookings) + 1]
    /\ UNCHANGED <<users, providers, conversations, inflight>>

Next ==
    \/ \E p \in {Alice, Bob} : \E m \in Inputs(p) : \E env \in Envs : Chat(p, m, env)
    \/ \E req \in Requests : CreateBooking(req)

Spec == Init /\ [][Next]_vars

\* ------------------------------------------- runs with a profile reset

\* Both plumbers are live; the customer may also reset the profile and
\* register again, answering each registration question as it is asked.
InitReset ==
    /\ users = (Alice :> Registered(<<"alice">>, <<>>))
    /\ providers = <<Plumber(1, "pat", <<"pat">>, TRUE, ""),
                     Plumber(2, Bob, <<"bob">>, TRUE, "")>>
    /\ conversations = <<[NewConversation(Alice) EXCEPT !.status = "closed"]>>
    /\ bookings = <<>>
    /\ inflight = {}
    /\ last = NoOperation

InputsReset ==
    IF users[Alice].pending_field = "name" THEN {<<"alice">>}
    ELSE IF users[Alice].pending_field = "location" THEN {HomeLocation}
    ELSE {m_full, <<"1">>, <<"yes">>, <<"no">>, <<"/reset">>}

RequestsReset == {req \in Requests : req.start = 2310}

NextReset ==
    \/ \E m \in InputsReset : \E env \in Envs : Chat(Alice, m, env)
    \/ \E req \in RequestsReset : CreateBooking(req)

SpecReset == InitReset /\ [][NextReset]_vars

\* ------------------------------------------- runs with saved addresses

\* The customer has no saved address, or one, or two of which the first is
\* blank; one plumber is live and the other is not.
InitAddress ==
    /\ \E addresses \in
              {<<>>, OneSaved, BlankFirst,
               OneSaved \o <<[street |-> <<"12", "main">>, suburb |-> <<"north">>,
                               city |-> <<"city">>, is_default |-> FALSE]>>} :
           users = (Alice :> Registered(<<"alice">>, addresses))
    /\ providers = <<Plumber(1, "pat", <<"pat">>, TRUE, ""),
                     Plumber(2, Bob, <<"bob">>, FALSE, "")>>
    /\ conversations = <<[NewConversation(Alice) EXCEPT !.status = "closed"]>>
    /\ bookings = <<>>
    /\ inflight = {}
    /\ last = NoOperation

NextAddress ==
    \/ \E m \in Messages : \E env \in Envs : Chat(Alice, m, env)
    \/ \E req \in Requests : CreateBooking(req)

SpecAddress == InitAddress /\ [][NextAddress]_vars

\* ------------------------------------------- runs of a new phone

\* The customer's phone is not known.  While it registers it sends
\* greetings, answers, commands and a booking request in any order.  A
\* second phone is a registered plumber asked whether to go live.
InitRegister ==
    /\ users = (Bob :> Registered(<<"bob">>, <<>>))
    /\ providers = <<Plumber(1, "pat", <<"pat">>, TRUE, ""),
                     Plumber(2, Bob, <<"bob">>, FALSE, "activate")>>
    /\ conversations = <<NewConversation(Bob)>>
    /\ bookings = <<>>
    /\ inflight = {}
    /\ last = NoOperation

\* once registered the phone only greets, ends the conversation or resets
MessagesRegister ==
    IF Alice \in DOMAIN users /\ MissingFields(users[Alice]) = <<>>
    THEN {<<"hi">>, <<"/end">>, <<"/reset">>}
    ELSE {<<"hi">>, <<"alice">>, HomeLocation, <<"yes">>, m_service, <<>>,
          <<"/profile">>, <<"/reset">>, <<"/end">>}

NextRegister ==
    \/ \E m \in MessagesRegister : \E env \in Envs : Chat(Alice, m, env)
    \/ \E m \in Inputs(Bob) : \E env \in Envs : Chat(Bob, m, env)

SpecRegister == InitRegister /\ [][NextRegister]_vars

\* ------------------------------------------- runs with concurrent handlers

\* Both endpoints are plain functions, which the server runs on a pool of
\* threads: a handler that has passed its conflict check may be overtaken
\* by another before it inserts.  `inflight' holds the handlers that stand
\* between their check and their insert, each with the document it will
\* insert and, for a conversational turn, the conversation and the reply.
MaxInflight == 2

InitRace ==
    /\ users = (Alice :> Registered(<<"alice">>, <<>>))
    /\ providers = <<Plumber(1, "pat", <<"pat">>, TRUE, ""),
                     Plumber(2, Bob, <<"bob">>, FALSE, "")>>
    /\ conversations = <<[NewConversation(Alice) EXCEPT !.status = "closed"]>>
    /\ bookings = <<>>
    /\ inflight = {}
    /\ last = NoOperation

\* the handler number a request is served under
FreeHandler == CHOOSE k \in 1..MaxInflight : \A x \in inflight : x.k # k

Admits == Cardinality(inflight) < MaxInflight
          /\ Len(bookings) + Cardinality(inflight) < MaxBookings

\* chat.py up to line 736: the turn until its reply, or until the booking
\* document is built and the availability re-check has passed
ChatCheck(p, m, env) ==
    \E r \in {ChatUntilInsert(Store, [phone |-> p, message |-> m, coords |-> None], env)} :
        /\ OpenConv(conversations, p) = 0 => Len(conversations) < MaxConvs
        /\ r.ins # <<>> => Admits
        /\ users' = r.db.users
        /\ providers' = r.db.providers
        /\ conversations' = r.db.conversations
        /\ bookings' = r.db.bookings
        /\ inflight' = IF r.ins = <<>> THEN inflight
                       ELSE inflight \cup {[k |-> FreeHandler, cid |-> r.cid,
                                            ins |-> r.ins, reply |-> r.reply]}
        /\ last' = [NoOperation EXCEPT !.op = IF r.ins = <<>> THEN "chat" ELSE "check",
                                       !.phone = p, !.msg = m,
                                       !.pre = StateBefore(p), !.ready = Ready(p),
                                       !.n = Len(bookings), !.reply = r.reply]

\* bookings.py lines 17-26: the conflict query, the 409, the document
CreateCheck(req) ==
    /\ req.start < req.end
    /\ Admits
    /\ inflight' = IF HasConflict(bookings, req) THEN inflight
                   ELSE inflight \cup {[k |-> FreeHandler, cid |-> 0,
                                        ins |-> <<BookingOf(req)>>,
                                        reply |-> <<"created">>]}
    /\ last' = [NoOperation EXCEPT
                   !.op = IF HasConflict(bookings, req) THEN "create_booking"
                          ELSE "check",
                   !.n = Len(bookings), !.req = req,
                   !.reply = IF HasConflict(bookings, req) THEN <<"409">> ELSE <<>>]
    /\ UNCHANGED <<users, providers, conversations, bookings>>

\* bookings.py lines 27-28 and chat.py lines 737-749: the insert and what
\* follows it
Insert(x) ==
    \E db \in {IF x.cid = 0
               THEN [Store EXCEPT !.bookings = insert_one(@, x.ins[1])]
               ELSE InsertBooking(Store, x)} :
        /\ users' = db.users
        /\ providers' = db.providers
        /\ conversations' = db.conversations
        /\ bookings' = db.bookings
        /\ inflight' = inflight \ {x}
        /\ last' = [NoOperation EXCEPT !.op = "insert", !.n = Len(bookings),
                                       !.ins = x.ins, !.reply = x.reply,
                                       !.id = Len(db.bookings)]

NextRace ==
    \/ \E m \in {m_full, <<"1">>, <<"yes">>} : \E env \in Envs : ChatCheck(Alice, m, env)
    \/ \E req \in Requests : CreateCheck(req)
    \/ \E x \in inflight : Insert(x)

SpecRace == InitRace /\ [][NextRace]_vars

\* ------------------------------------------- runs with concurrent turns

\* Two turns of one phone may both look for the open conversation before
\* either goes on.  `inflight' holds the turns that have done the lookup of
\* line 332, each with what it found.
InitOpenRace ==
    /\ users = (Alice :> Registered(<<"alice">>, <<>>))
    /\ providers = <<Plumber(1, "pat", <<"pat">>, TRUE, "")>>
    /\ conversations = <<[NewConversation(Alice) EXCEPT !.status = "closed"]>>
    /\ bookings = <<>>
    /\ inflight = {}
    /\ last = NoOperation

\* chat.py line 332: find_one({phone, status != closed})
Lookup(p, m) ==
    /\ Cardinality(inflight) < MaxInflight
    /\ OpenConv(conversations, p) = 0
           => Len(conversations) + Cardinality({x \in inflight : x.found = 0}) < MaxConvs
    /\ inflight' = inflight \cup {[k |-> FreeHandler, phone |-> p, msg |-> m,
                                   found |-> OpenConv(conversations, p)]}
    /\ last' = [NoOperation EXCEPT !.op = "lookup", !.phone = p, !.msg = m]
    /\ UNCHANGED <<users, providers, conversations, bookings>>

\* chat.py from line 333: the conversation inserted when the lookup found
\* none, and the rest of the turn
Finish(x, env) ==
    \E r \in {ChatAfterOpen(OpenStageFound(Store, [phone |-> x.phone, message |-> x.msg,
                                                   coords |-> None], x.found),
                            [phone |-> x.phone, message |-> x.msg, coords |-> None],
                            env)} :
    \E db \in {IF r.ins = <<>> THEN r.db ELSE InsertBooking(r.db, r)} :
        /\ r.ins # <<>> => Len(bookings) < MaxBookings
        /\ users' = db.users
        /\ providers' = db.providers
        /\ conversations' = db.conversations
        /\ bookings' = db.bookings
        /\ inflight' = inflight \ {x}
        /\ last' = [NoOperation EXCEPT !.op = "chat", !.phone = x.phone, !.msg = x.msg,
                                       !.pre = StateBefore(x.phone),
                                       !.ready = Ready(x.phone),
                                       !.n = Len(bookings),
                                       !.ins = r.ins, !.reply = r.reply]

NextOpenRace ==
    \/ \E m \in {<<"hi">>, <<"/end">>, m_service} : Lookup(Alice, m)
    \/ \E x \in inflight : \E env \in Envs : Finish(x, env)

SpecOpenRace == InitOpenRace /\ [][NextOpenRace]_vars

\* ------------------------------------------- runs with piecemeal requests

\* The customer gives the time and the service in separate messages, in
\* either order; one plumber is live.
InitPiecemeal ==
    /\ users = (Alice :> Registered(<<"alice">>, <<>>))
    /\ providers = <<Plumber(1, "pat", <<"pat">>, TRUE, ""),
                     Plumber(2, Bob, <<"bob">>, FALSE, "")>>
    /\ conversations = <<[NewConversation(Alice) EXCEPT !.status = "closed"]>>
    /\ bookings = <<>>
    /\ inflight = {}
    /\ last = NoOperation

NextPiecemeal ==
    \/ \E m \in {m_time, m_service, <<"1">>, <<"yes">>, <<"no">>, m_malformed,
                  <<"ok", "but", "change", "the", "time">>,
                  <<"tomorrow", "at", "11am">>} :
           \E env \in Envs : Chat(Alice, m, env)
    \/ \E req \in Requests : CreateBooking(req)

SpecPiecemeal == InitPiecemeal /\ [][NextPiecemeal]_vars

\* ------------------------------------------- the provider ranker applied

\* a candidate provider with a rating (in tenths, None for none), a position
\* in meters, an active flag and a service
Candidate(id, rating, pos, active, service) ==
    [Plumber(id, "pat", <<"pat">>, active, "")
        EXCEPT !.rating = rating, !.coverage_coords = pos,
               !.service_type = <<service>>]

\* three candidates: ratings of every kind, positions near, far or unknown,
\* and flags and services that match the request or do not
ThreeCandidates ==
    {[i \in 1..3 |-> Candidate(i, r[i], pos[i], k[i][1], k[i][2])] :
        r \in [1..3 -> {None, 40, 45, 50}],
        pos \in {<<2000, 1000, 1000>>, <<None, None, None>>, <<1000, 40000, None>>},
        k \in {<<<<TRUE, "plumber">>, <<TRUE, "plumber">>, <<TRUE, "plumber">>>>,
               <<<<TRUE, "plumber">>, <<FALSE, "plumber">>, <<TRUE, "electrician">>>>,
               <<<<FALSE, "plumber">>, <<FALSE, "plumber">>, <<FALSE, "plumber">>>>}}

\* more candidates than the query and the shortlist keep
ManyCandidates ==
    {[i \in 1..n |-> Candidate(i, 40 + (i % 3), 100 * i, TRUE, "plumber")] :
        n \in {6, 11}}

\* the user at position 0 or without coordinates; provider 2, or providers
\* 1 and 2, booked from 14:30 to 15:30 tomorrow
InitRank ==
    /\ \E c \in {None, 0} :
           users = (Alice :> [Registered(<<"alice">>, <<>>) EXCEPT !.coords = c])
    /\ providers \in ThreeCandidates \cup ManyCandidates
    /\ \E busy \in {<<>>, <<2>>, <<1, 2>>} :
           bookings = [i \in 1..Len(busy) |->
                          BookingOf([user_id |-> "api", provider_id |-> busy[i],
                                     start |-> 2310, end |-> 2310 + slot_minutes,
                                     notes |-> <<>>])]
    /\ conversations = <<>>
    /\ inflight = {}
    /\ last = NoOperation

\* one call of the ranker; `last' keeps the service and the desired start
\* asked for and the list returned
Rank(service, desired_start) ==
    /\ last' = [NoOperation EXCEPT
                   !.op = "rank", !.msg = <<service>>,
                   !.req = [NoRequest EXCEPT !.start = desired_start],
                   !.out = find_nearby_providers(providers, bookings, service,
                                                 users[Alice], desired_start)]
    /\ UNCHANGED <<users, providers, conversations, bookings, inflight>>

NextRank ==
    \E service \in {"plumber", "electrician"} :
        \E desired_start \in {None, 2340} : Rank(service, desired_start)

SpecRank == InitRank /\ [][NextRank]_vars

\* --------------------------------------------- the overlap test applied

\* 9:30 to 12:00 of today in half hours
ProbeTimes == {570, 600, 630, 660, 690, 720}

\* an interval [start, end) of provider 1
Interval(start_dt, end_dt) ==
    [user_id |-> "api", provider_id |-> 1, start |-> start_dt,
     end |-> end_dt, notes |-> <<>>]

\* one stored booking of provider 1 with start < end
InitOverlap ==
    /\ \E a1, a2 \in ProbeTimes :
           a1 < a2 /\ bookings = <<BookingOf(Interval(a1, a2))>>
    /\ users = <<>>
    /\ providers = <<Plumber(1, "pat", <<"pat">>, TRUE, "")>>
    /\ conversations = <<>>
    /\ inflight = {}
    /\ last = NoOperation

\* both conflict queries asked about [b1, b2): the availability test of the
\* chat handler and the conflict test of create_booking
Probe(b1, b2) ==
    /\ b1 < b2
    /\ last' = [NoOperation EXCEPT
                   !.op = "overlap", !.req = Interval(b1, b2),
                   !.out = <<is_provider_available(bookings, 1, b1, b2),
                             HasConflict(bookings, Interval(b1, b2))>>]
    /\ UNCHANGED <<users, providers, conversations, bookings, inflight>>

NextOverlap == \E b1, b2 \in ProbeTimes : Probe(b1, b2)

SpecOverlap == InitOverlap /\ [][NextOverlap]_vars

\* ---------------------------------------------- the date parser applied

\* A day word or none and a clock time or none, in either order.  The
\* clock times: none, well-formed ones of the three patterns, a bare hour,
\* and ones with an hour or a minute out of range.
ParseTexts ==
    LET ParseDays == {<<>>, <<"today">>, <<"tomorrow">>}
        ParseClocks ==
            {<<>>, <<"3pm">>, <<"3", "pm">>, <<"12am">>, <<"12pm">>, <<"11am">>,
             <<"15:00">>, <<"3:30pm">>, <<"12:30am">>, <<"300pm">>, <<"1230pm">>,
             <<"0:00">>, <<"3">>, <<"25:00">>, <<"13pm">>, <<"12:60">>}
    IN  {d \o link \o c :
            d \in ParseDays, link \in {<<>>, <<"at">>}, c \in ParseClocks}
        \cup {c \o d : d \in ParseDays, c \in ParseClocks}

InitParse ==
    /\ users = <<>>
    /\ providers = <<>>
    /\ conversations = <<>>
    /\ bookings = <<>>
    /\ inflight = {}
    /\ last = NoOperation

\* one call of the parser; `last' keeps the text and the result
Parse(text) ==
    /\ last' = [NoOperation EXCEPT
                   !.op = "parse", !.msg = text,
                   !.out = <<parse_natural_datetime(text)>>]
    /\ UNCHANGED <<users, providers, conversations, bookings, inflight>>

NextParse == \E text \in ParseTexts : Parse(text)

SpecParse == InitParse /\ [][NextParse]_vars

\* --------------------------------------------- the model loop applied

\* One run of the candidate loop, with the configured ids and what each
\* model does drawn from bounded sets; `last' keeps the inputs, the calls
\* made and the replies _llm_natural_reply and the last stage of the
\* handler give.
AskModels(fast, settings, answers) ==
    /\ last' = The({[NoOperation EXCEPT
                        !.op = "llm",
                        !.out = <<[fast |-> fast, settings |-> settings,
                                   answers |-> answers, tried |-> tried,
                                   natural |-> llm_natural_reply(
                                                  [llm |-> tried.answered, geo |-> FALSE]),
                                   final |-> FallbackStage(
                                                 Store, 1,
                                                 [llm |-> tried.answered, geo |-> FALSE]).reply]>>]
                    : tried \in {try_candidates(fast, settings, answers)}})
    /\ UNCHANGED <<users, providers, conversations, bookings, inflight>>

NextModels ==
    \E fast \in BOOLEAN :
    \E settings \in [fast : {<<>>, <<"haiku", TRUE>>},
                     model : {<<>>, <<"sonnet", FALSE>>, <<"haiku", FALSE>>,
                              <<"haiku", TRUE>>}] :
    \E answers \in [{"haiku", "sonnet"} \X BOOLEAN -> {"raises", "empty", "text"}] :
        AskModels(fast, settings, answers)

SpecModels == InitPiecemeal /\ [][NextModels]_vars

\* ------------------------------------------------- provider onboarding

\* a registered user with stored coordinates and no provider record
InitOnboard ==
    /\ users = (Bob :> [Registered(<<"bob">>, <<>>) EXCEPT !.coords = 0])
    /\ providers = <<Plumber(1, "pat", <<"pat">>, TRUE, "")>>
    /\ conversations = <<>>
    /\ bookings = <<>>
    /\ inflight = {}
    /\ last = NoOperation

\* The sender asks to register as a provider or resets at any time, and
\* otherwise answers the question that is pending or, with nothing
\* pending, greets, agrees, asks to go live or for plumbing, or gives a
\* name when the profile has none.
NextOnboard ==
    \E m \in {<<"register", "provider">>, <<"/reset">>}
             \cup The({IF "name" \in pending THEN {<<"alice">>}
                       ELSE IF "service_type" \in pending THEN {<<"plumber">>}
                       ELSE IF pending \cap {"location", "coverage"} # {}
                       THEN {HomeLocation}
                       ELSE IF "policy" \in pending THEN {<<"yes">>, <<"no">>}
                       ELSE IF "activate" \in pending
                       THEN {<<"yes">>, <<"no">>, <<"go", "live">>, <<"hi">>,
                             m_service}
                       ELSE {<<"hi">>, <<"yes">>, <<"go", "live">>, <<"plumbing">>}
                            \cup (IF users[Bob].name = <<>> THEN {<<"alice">>}
                                  ELSE {})
                       : pending \in {{users[Bob].pending_field}
                                      \cup {providers[i].pending_field :
                                               i \in {j \in 1..Len(providers) :
                                                         providers[j].phone = Bob}}}}) :
        \E env \in Envs : Chat(Bob, m, env)

SpecOnboard == InitOnboard /\ [][NextOnboard]_vars

\* ------------------------------- _extract_phone and converse applied

\* _extract_phone on the characters of a raw identifier: the part before
\* the first "@", its digits and "+" signs kept in order; <<>> for None
extract_phone(raw) ==
    LET ats == {i \in 1..Len(raw) : raw[i] = "@"}
        v == IF ats = {} THEN raw
             ELSE SubSeq(raw, 1, (CHOOSE i \in ats : \A j \in ats : i <= j) - 1)
        kept == SelectSeq(v, LAMBDA ch : ch \in Digit \cup {"+"})
    IN  IF \E i \in 1..Len(kept) : kept[i] \in Digit THEN kept ELSE <<>>

\* a loop that retries after every error
RECURSIVE converse_retry_any(_)
converse_retry_any(outcomes) ==
    IF Head(outcomes) = "response" THEN [result |-> "response", calls |-> 1]
    ELSE IF Len(outcomes) > 1
    THEN [converse_retry_any(Tail(outcomes)) EXCEPT !.calls = @ + 1]
    ELSE [result |-> Head(outcomes), calls |-> 1]

\* bedrock_client.converse: outcomes[i] is what the i-th remote call would
\* do (a response, a throttling error or another error), for i in
\* range(retries); the result is the response or the error raised, calls
\* the number of remote calls made
RECURSIVE converse(_)
converse(outcomes) ==
    IF Head(outcomes) = "response" THEN [result |-> "response", calls |-> 1]
    ELSE IF Head(outcomes) = "throttling" /\ Len(outcomes) > 1
    THEN [converse(Tail(outcomes)) EXCEPT !.calls = @ + 1]
    ELSE [result |-> Head(outcomes), calls |-> 1]

\* one raw identifier normalized; `last' keeps the identifier and the token
NormalizePhone(raw) ==
    /\ last' = [NoOperation EXCEPT
                   !.op = "extract_phone", !.msg = raw,
                   !.out = <<extract_phone(raw)>>]
    /\ UNCHANGED <<users, providers, conversations, bookings, inflight>>

\* one invocation of converse; `last' keeps what the remote calls would do
\* and what the invocation did
CallConverse(outcomes) ==
    /\ last' = [NoOperation EXCEPT
                   !.op = "converse", !.msg = outcomes,
                   !.out = <<converse(outcomes)>>]
    /\ UNCHANGED <<users, providers, conversations, bookings, inflight>>

\* identifiers of up to four characters out of a digit, "+", "@" and a
\* letter; every behaviour of the remote calls of one invocation
NextWrappers ==
    \/ \E n \in 0..4 : \E raw \in [1..n -> {"1", "+", "@", "a"}] :
           NormalizePhone(raw)
    \/ \E outcomes \in [1..retries -> {"response", "throttling", "other"}] :
           CallConverse(outcomes)

SpecWrappers == InitParse /\ [][NextWrappers]_vars

\* ------------------------------------------------------------ the claims

\* the conversation the last message was handled in
LastConv == conversations[OpenConv(conversations, last.phone)]

\* a conversational turn that inserted a booking
Committed == last.op = "chat" /\ last.ins # <<>>

\* C1: whatever operations are handled one after the other, no two stored
\* bookings of the same provider overlap.
C1_NoOverlap ==
    \A i, j \in 1..Len(bookings) :
        (/\ i # j
         /\ bookings[i].provider_id # 0
         /\ bookings[i].provider_id = bookings[j].provider_id
         /\ bookings[i].start # None /\ bookings[j].start # None)
        => ~ (bookings[i].start < bookings[j].end /\ bookings[j].start < bookings[i].end)

\* two bookings of one provider stand side by side, one made by the direct
\* interface and one by a conversation
C1_Witness ==
    \E i, j \in 1..Len(bookings) :
        /\ bookings[i].provider_id = bookings[j].provider_id
        /\ bookings[i].provider_id # 0
        /\ bookings[i].user_id = "api" /\ bookings[j].user_id = Alice
        /\ bookings[j].start # None

\* C2: a conversational turn inserts a booking only when the conversation's
\* booking_state was awaiting_confirm as the turn began.
C2_InsertOnlyWhenAwaitingConfirm ==
    Committed => last.pre.state = "awaiting_confirm"

C2_Witness == Committed /\ last.pre.state = "awaiting_confirm" /\ last.msg = <<"yes">>

\* C3: a conversation is in awaiting_confirm only with a persisted draft that
\* has service, issue, date_time and provider_id.
C3_ConfirmOnlyComplete ==
    \A c \in 1..Len(conversations) :
        conversations[c].booking_state = "awaiting_confirm"
        => /\ conversations[c].booking_draft.present
           /\ conversations[c].booking_draft.service # ""
           /\ conversations[c].booking_draft.issue # <<>>
           /\ conversations[c].booking_draft.date_time # <<>>
           /\ conversations[c].booking_draft.provider_id # 0

\* C4: a booking inserted by a confirmation has a provider, starts at the
\* draft's date_time, ends 60 minutes later and belongs to the sender.
C4_InsertedFullyResolved ==
    Committed
    => /\ last.ins[1].provider_id # 0
       /\ last.ins[1].start # None
       /\ last.pre.draft.date_time # <<>>
       /\ last.ins[1].start = fromisoformat(last.pre.draft.date_time)
       /\ last.ins[1].end = last.ins[1].start + 60
       /\ last.ins[1].user_id = last.phone

\* C7: create_booking answers with the conflict signal exactly when a stored
\* booking of the same provider overlaps the requested interval; then the
\* collection is unchanged; otherwise exactly one booking with the requested
\* fields is added and its id returned.
C7_CreateBooking ==
    [][last'.op = "create_booking" =>
        LET req == last'.req
            conflict ==
                \E i \in 1..Len(bookings) :
                    /\ bookings[i].provider_id = req.provider_id
                    /\ bookings[i].start # None
                    /\ bookings[i].start < req.end
                    /\ bookings[i].end > req.start
        IN  /\ (last'.reply = <<"409">>) <=> conflict
            /\ conflict => bookings' = bookings /\ last'.id = 0
            /\ ~ conflict =>
                   /\ Len(bookings') = Len(bookings) + 1
                   /\ SubSeq(bookings', 1, Len(bookings)) = bookings
                   /\ last'.id = Len(bookings')
                   /\ bookings'[last'.id].user_id = req.user_id
                   /\ bookings'[last'.id].provider_id = req.provider_id
                   /\ bookings'[last'.id].start = req.start
                   /\ bookings'[last'.id].end = req.end
                   /\ bookings'[last'.id].notes = req.notes]_vars

\* a request is accepted while a booking of another provider overlaps it
C7_Witness ==
    /\ last.op = "create_booking" /\ last.id # 0
    /\ \E i \in 1..Len(bookings) :
           /\ bookings[i].provider_id \notin {0, last.req.provider_id}
           /\ bookings[i].start # None
           /\ bookings[i].start < last.req.end
           /\ bookings[i].end > last.req.start

\* C8: in awaiting_confirm, sending the fully specified request again
\* inserts nothing and leaves the booking state and the draft as they were.
C8_ResendIdempotent ==
    (/\ last.op = "chat"
     /\ last.pre.state = "awaiting_confirm"
     /\ last.msg = m_full
     /\ last.pre.draft.service = Extracted[m_full, HomeLocation].service
     /\ last.pre.draft.issue = Extracted[m_full, HomeLocation].issue
     /\ last.pre.draft.date_time = Extracted[m_full, HomeLocation].date_time
     /\ last.pre.draft.address = Extracted[m_full, HomeLocation].address)
    => /\ last.ins = <<>>
       /\ LastConv.booking_state = "awaiting_confirm"
       /\ LastConv.booking_draft = last.pre.draft

\* the slot of the draft a turn started with
DraftStart == StartOf(last.pre.draft)

\* provider pid had a booking overlapping the draft's slot as the turn began
BusyBefore(pid) ==
    /\ DraftStart # None
    /\ pid # 0
    /\ \E i \in 1..last.n :
           /\ bookings[i].provider_id = pid
           /\ bookings[i].start # None
           /\ bookings[i].start < DraftStart + 60
           /\ bookings[i].end > DraftStart

\* the active providers of the draft's service, other than the chosen one,
\* that were free for the slot as the turn began
Alternatives ==
    {pid \in 1..Len(providers) :
        /\ providers[pid].active
        /\ providers[pid].service_type = <<last.pre.draft.service>>
        /\ pid # last.pre.draft.provider_id
        /\ ~ BusyBefore(pid)}

\* an affirmative reply arrived in awaiting_confirm
ConfirmTurn ==
    /\ last.op = "chat"
    /\ last.pre.state = "awaiting_confirm"
    /\ Read[last.msg].confirm

\* what the re-check at confirmation does: the chosen provider when it is
\* free, a free alternative when it is not, else a refusal that keeps the draft
Rechecked ==
    /\ ~ BusyBefore(last.pre.draft.provider_id)
           => /\ last.ins # <<>>
              /\ last.ins[1].provider_id = last.pre.draft.provider_id
              /\ last.ins[1].start = DraftStart
    /\ (BusyBefore(last.pre.draft.provider_id) /\ Alternatives # {})
           => /\ last.ins # <<>>
              /\ last.ins[1].provider_id \in Alternatives
              /\ last.ins[1].provider_id # last.pre.draft.provider_id
              /\ last.ins[1].start = DraftStart
              /\ last.ins[1].end = DraftStart + 60
    /\ (BusyBefore(last.pre.draft.provider_id) /\ Alternatives = {})
           => /\ last.ins = <<>>
              /\ Len(bookings) = last.n
              /\ LastConv.booking_state = "collecting"
              /\ LastConv.booking_draft = last.pre.draft
              /\ last.reply = <<"no_providers_available">>

C9_CommitClears ==
    Committed
    => /\ Len(bookings) = last.n + 1
       /\ bookings[Len(bookings)] = last.ins[1]
       /\ LastConv.booking_draft = NoDraft
       /\ LastConv.booking_state = ""
       /\ LastConv.provider_options = <<>>
       /\ LastConv.address_options = <<>>
       /\ \A env \in Envs :
              ChatUntilInsert(Store, [phone |-> last.phone, message |-> <<"yes">>,
                                      coords |-> None], env).ins = <<>>

\* a commit in a conversation that went through the address choice
C9_Witness == Committed /\ last.ins[1].address = AddressOption(BlankFirst[1])

\* a negative reply arrived in awaiting_confirm
CancelTurn ==
    /\ last.op = "chat"
    /\ last.pre.state = "awaiting_confirm"
    /\ last.msg \in cancel_words

\* nothing inserted, draft and state removed
Cancelled ==
    /\ last.ins = <<>>
    /\ Len(bookings) = last.n
    /\ LastConv.booking_draft = NoDraft
    /\ LastConv.booking_state = ""

\* C10 (amended): for a sender who is fully registered and not in the middle
\* of provider onboarding, a negative reply in awaiting_confirm inserts no
\* booking and removes booking_draft and booking_state.
C10_CancelWhenReady == (CancelTurn /\ last.ready) => Cancelled

C10_Witness == CancelTurn /\ last.ready /\ last.reply = <<"cancelled">>

\* C10 as stated: every negative reply in awaiting_confirm cancels.
C10_CancelAlways == CancelTurn => Cancelled

\* two stored bookings of one provider whose intervals overlap
OverlappingPair ==
    \E i, j \in 1..Len(bookings) :
        /\ i < j
        /\ bookings[i].provider_id = bookings[j].provider_id
        /\ bookings[i].provider_id # 0
        /\ bookings[i].start # None /\ bookings[j].start # None
        /\ bookings[i].start < bookings[j].end
        /\ bookings[j].start < bookings[i].end

\* C6: the conflict check and the insert are separate steps: a request that
\* passes its check leaves the bookings as they are, reserving nothing, and
\* its insert stores the checked document whatever the bookings hold by then,
\* so that two overlapping bookings of one provider can both be stored.
C6_CheckThenInsert ==
    [][/\ last'.op = "check" => (bookings' = bookings /\ inflight' # inflight)
       /\ last'.op = "insert" => bookings' = Append(bookings, last'.ins[1])]_vars

\* a direct request and a confirmation, or two confirmations, passed their
\* checks and were both inserted
C6_Witness ==
    /\ last.op = "insert"
    /\ OverlappingPair
    /\ \E i \in 1..Len(bookings) : bookings[i].user_id = Alice

\* the step is a turn of a phone whose user had the name or the location
\* pending, and the message is not empty
AnswerTurn ==
    /\ last'.op = "chat"
    /\ last'.phone \in DOMAIN users
    /\ users[last'.phone].pending_field \in {"name", "location"}
    /\ last'.msg # <<>>

\* the value a user document holds for a registration field
FieldOf(u, f) == IF f = "name" THEN u.name ELSE u.location

\* the message became the value of the field that was pending, that field is
\* no longer pending, and neither the booking flow nor the provider
\* onboarding acted on the message
AnswerStored ==
    /\ FieldOf(users'[last'.phone], users[last'.phone].pending_field) = last'.msg
    /\ users'[last'.phone].pending_field # users[last'.phone].pending_field
    /\ providers' = providers
    /\ bookings' = bookings
    /\ \A i \in 1..Len(conversations') :
           LET before == IF i <= Len(conversations) THEN conversations[i]
                         ELSE NewConversation(last'.phone)
           IN  /\ conversations'[i].booking_state = before.booking_state
               /\ conversations'[i].booking_draft = before.booking_draft
               /\ conversations'[i].provider_options = before.provider_options

IsCommand(msg) ==
    /\ Read[msg].slash
    /\ \/ msg[1] \in {"/reset", "/end", "/profile", "/bookings"}
       \/ Read[msg].provider_status

\* C12: when a registration field is pending and the next message is a
\* recognized slash command, the command text does not become the value of
\* the user's name or location.
C12_CommandNotStored ==
    [][(/\ last'.op = "chat"
        /\ last'.phone \in DOMAIN users
        /\ users[last'.phone].pending_field # ""
        /\ IsCommand(last'.msg))
       => /\ users'[last'.phone].name # last'.msg
          /\ users'[last'.phone].location # last'.msg]_vars

\* the step is a turn whose message is an answer: not empty, no command
PlainTurn ==
    /\ last'.op = "chat"
    /\ last'.msg # <<>>
    /\ ~ Read[last'.msg].slash

\* the turn asked for registration field f and recorded it as pending
Requested(f) ==
    /\ users'[last'.phone].pending_field = f
    /\ last'.reply \in {<<"ask", f>>, <<"llm">>}

\* C13: a phone never seen before is asked for its name; the answer to the
\* name is followed by the request for the location, the answer to the
\* location by the request for the policy, one field a turn, each recorded
\* as pending_field before the turn returns; an affirmative policy answer
\* sets policy_agreed and closes the conversation, and a message that finds
\* no open conversation is handled in a newly created one.
C13_RegistrationOrder ==
    [][/\ (PlainTurn /\ last'.phone \notin DOMAIN users) => Requested("name")
       /\ (PlainTurn /\ last'.phone \in DOMAIN users
                     /\ users[last'.phone].pending_field = "name")
              => /\ users'[last'.phone].name = last'.msg
                 /\ Requested("location")
       /\ (PlainTurn /\ last'.phone \in DOMAIN users
                     /\ users[last'.phone].pending_field = "location")
              => /\ users'[last'.phone].location = last'.msg
                 /\ Requested("policy")
       /\ (PlainTurn /\ last'.phone \in DOMAIN users
                     /\ users[last'.phone].pending_field = "policy"
                     /\ last'.msg \in YesWords)
              => /\ users'[last'.phone].policy_agreed
                 /\ users'[last'.phone].pending_field = ""
                 /\ OpenConv(conversations', last'.phone) = 0
                 /\ conversations'[Len(conversations')].status = "closed"
       /\ (last'.op = "chat" /\ OpenConv(conversations, last'.phone) = 0)
              => /\ Len(conversations') = Len(conversations) + 1
                 /\ conversations'[Len(conversations')].phone = last'.phone
                 /\ conversations'[Len(conversations')].messages # <<>>
                 /\ \A i \in 1..Len(conversations) :
                        conversations'[i] = conversations[i]]_vars

\* registered with name, location and policy, the registration conversation
\* closed, and the next message handled in a second conversation
C13_Witness ==
    /\ Alice \in DOMAIN users
    /\ users[Alice].name = <<"alice">>
    /\ users[Alice].location = HomeLocation
    /\ users[Alice].policy_agreed
    /\ Len(conversations) = 3
    /\ conversations[2].phone = Alice
    /\ conversations[2].status = "closed"
    /\ conversations[3].phone = Alice
    /\ conversations[3].status = "open"
    /\ last.msg = <<"hi">>

\* the conversations of phone p that are not closed
OpenOf(p) ==
    {i \in 1..Len(conversations) :
        conversations[i].phone = p /\ conversations[i].status # "closed"}

\* C14: each phone has at most one conversation that is not closed, and a
\* conversation is created only by a turn that finds no open conversation
\* for its phone.
C14_OneOpenConversation ==
    /\ [](\A p \in {Alice, Bob} : Cardinality(OpenOf(p)) <= 1)
    /\ [][Len(conversations') # Len(conversations)
          => /\ last'.op = "chat"
             /\ OpenConv(conversations, last'.phone) = 0
             /\ Len(conversations') = Len(conversations) + 1
             /\ conversations'[Len(conversations')].phone = last'.phone]_vars

\* a phone with a closed conversation and a later open one
C14_Witness ==
    \E i, j \in 1..Len(conversations) :
        /\ i < j
        /\ conversations[i].phone = conversations[j].phone
        /\ conversations[i].status = "closed"
        /\ conversations[j].status = "open"
        /\ Cardinality(OpenOf(conversations[i].phone)) = 1

\* C15: a closed conversation stays as it is, status and log; the next
\* message of its phone is recorded in a conversation created by that turn.
C15_ClosedIsTerminal ==
    [][/\ \A i \in 1..Len(conversations) :
              conversations[i].status = "closed"
              => /\ i <= Len(conversations')
                 /\ conversations'[i] = conversations[i]
       /\ (last'.op = "chat" /\ OpenOf(last'.phone) = {})
              => /\ Len(conversations') = Len(conversations) + 1
                 /\ conversations'[Len(conversations')].phone = last'.phone
                 /\ conversations'[Len(conversations')].messages # <<>>]_vars

\* conversations closed by /end or by the registration and by the provider's
\* activation, and the customer's next message in a new conversation
C15_Witness ==
    /\ Len(conversations) = 3
    /\ conversations[1].phone = Bob
    /\ conversations[1].status = "closed"
    /\ conversations[2].status = "closed"
    /\ conversations[3].phone = Alice
    /\ conversations[3].messages # <<>>
    /\ last.op = "chat"
    /\ last.phone = Alice

\* C16: also when two messages of one phone are handled concurrently, no
\* phone has two conversations that are not closed.
C16_OneOpenConcurrent ==
    \A p \in {Alice, Bob} :
        Cardinality({i \in 1..Len(conversations) :
                        conversations[i].phone = p
                        /\ conversations[i].status = "open"}) <= 1

\* the conversation of the phone before and after the step
ConvBefore ==
    IF OpenConv(conversations, last'.phone) = 0 THEN NewConversation(last'.phone)
    ELSE conversations[OpenConv(conversations, last'.phone)]

ConvAfter == conversations'[OpenConv(conversations', last'.phone)]

\* the step is a turn of a fully registered customer with message m
ReadyTurn(m) == last'.op = "chat" /\ last'.ready /\ last'.msg = m

\* first turn: the full request with no negotiation under way and an
\* active plumber
ListsProviders ==
    (/\ ReadyTurn(m_full)
     /\ last'.pre = [state |-> "", draft |-> NoDraft]
     /\ ConvBefore.provider_options = <<>>
     /\ ConvBefore.address_options = <<>>
     /\ users[last'.phone].addresses = <<>>
     /\ \E i \in 1..Len(providers) :
            providers[i].active /\ providers[i].service_type = <<"plumber">>)
    => /\ ConvAfter.booking_state = "awaiting_provider_choice"
       /\ ConvAfter.booking_draft.present
       /\ ConvAfter.booking_draft.service = "plumber"
       /\ ConvAfter.booking_draft.issue # <<>>
       /\ ConvAfter.booking_draft.date_time = <<1, 15, 0>>
       /\ ConvAfter.booking_draft.address = <<<<"12", "main">>, <<"north">>, <<"city">>>>
       /\ ConvAfter.booking_draft.provider_id = 0
       /\ ConvAfter.provider_options # <<>>
       /\ \A k \in 1..Len(ConvAfter.provider_options) :
              /\ providers[ConvAfter.provider_options[k].id].active
              /\ providers[ConvAfter.provider_options[k].id].service_type = <<"plumber">>
       /\ last'.reply \in {<<"llm">>, <<"share_more">>}
       /\ bookings' = bookings

\* second turn: the number 1 while the list is offered
ChoosesFirst ==
    (/\ ReadyTurn(<<"1">>)
     /\ last'.pre.state = "awaiting_provider_choice"
     /\ last'.pre.draft.service # ""
     /\ last'.pre.draft.issue # <<>>
     /\ last'.pre.draft.date_time # <<>>
     /\ last'.pre.draft.provider_id = 0
     /\ ConvBefore.provider_options # <<>>)
    => /\ ConvAfter.booking_state = "awaiting_confirm"
       /\ ConvAfter.booking_draft =
              [last'.pre.draft EXCEPT
                  !.provider_id = ConvBefore.provider_options[1].id,
                  !.provider_name = ConvBefore.provider_options[1].name]
       /\ last'.reply = <<"confirm_summary">>
       /\ bookings' = bookings

\* third turn: yes, the chosen provider having no booking in the slot
CommitsChosen ==
    (/\ ReadyTurn(<<"yes">>)
     /\ last'.pre.state = "awaiting_confirm"
     /\ last'.pre.draft.date_time = <<1, 15, 0>>
     /\ last'.pre.draft.provider_id # 0
     /\ \A i \in 1..Len(bookings) :
            ~ (/\ bookings[i].provider_id = last'.pre.draft.provider_id
               /\ bookings[i].start # None
               /\ bookings[i].start < 2400
               /\ bookings[i].end > 2340))
    => /\ Len(bookings') = Len(bookings) + 1
       /\ \A i \in 1..Len(bookings) : bookings'[i] = bookings[i]
       /\ bookings'[Len(bookings')].user_id = last'.phone
       /\ bookings'[Len(bookings')].provider_id = last'.pre.draft.provider_id
       /\ bookings'[Len(bookings')].start = 2340
       /\ bookings'[Len(bookings')].end = 2400
       /\ ConvAfter.booking_draft = NoDraft
       /\ ConvAfter.booking_state = ""
       /\ last'.reply = <<"booked">>

AllowedEdges ==
    {<<"", "collecting">>, <<"collecting", "collecting">>,
     <<"collecting", "awaiting_provider_choice">>,
     <<"collecting", "awaiting_address_choice">>,
     <<"awaiting_provider_choice", "awaiting_confirm">>,
     <<"awaiting_address_choice", "awaiting_confirm">>,
     <<"awaiting_confirm", "">>, <<"awaiting_confirm", "collecting">>}

\* the booking state conversation i had before the step
StateOf(i) == IF i <= Len(conversations) THEN conversations[i].booking_state ELSE ""

\* C18: the persisted booking_state of a conversation changes only along
\* unset -> collecting, collecting -> collecting, collecting -> a choice
\* state, a choice state -> awaiting_confirm, awaiting_confirm -> unset with
\* the draft cleared, and awaiting_confirm -> collecting.
C18_StateEdges ==
    [][\A i \in 1..Len(conversations') :
          conversations'[i].booking_state # StateOf(i)
          => /\ <<StateOf(i), conversations'[i].booking_state>> \in AllowedEdges
             /\ conversations'[i].booking_state = ""
                    => conversations'[i].booking_draft = NoDraft]_vars

\* draft d2 holds every value that draft d1 holds
Keeps(d1, d2) ==
    /\ d1.service # "" => d2.service = d1.service
    /\ d1.issue # <<>> => d2.issue = d1.issue
    /\ d1.date_time # <<>> => d2.date_time = d1.date_time
    /\ d1.address # <<>> => d2.address = d1.address
    /\ d1.provider_id # 0 => d2.provider_id = d1.provider_id
    /\ d1.provider_name # <<>> => d2.provider_name = d1.provider_name

\* C19: a value persisted in a field of the booking draft is neither
\* changed nor removed by a later turn, until a commit or a cancel clears
\* the whole draft.
C19_MergeIfAbsent ==
    [][\A i \in 1..Len(conversations) :
          \/ Keeps(conversations[i].booking_draft, conversations'[i].booking_draft)
          \/ /\ conversations'[i].booking_draft = NoDraft
             /\ last'.op = "chat"
             /\ last'.pre.state = "awaiting_confirm"
             /\ last'.reply \in {<<"booked">>, <<"cancelled">>}]_vars

\* a message whose issue differs from the stored one left the draft as it was
C19_Witness ==
    /\ last.op = "chat"
    /\ last.msg = m_service
    /\ last.pre.draft.issue = <<"a", "leak", "tomorrow">>
    /\ LastConv.booking_draft = last.pre.draft

\* what the extractor finds in the message of the step
Found == Extracted[last'.msg, users[last'.phone].location]

\* C20: every field (issue, date_time, address) that the extractor finds in
\* a message handled by the extraction of the booking branch is in the
\* persisted draft after that turn, also when the service is not yet known.
C20_FieldsAccumulate ==
    [][(/\ last'.op = "chat"
        /\ last'.ready
        /\ last'.pre.state \in {"", "collecting"}
        /\ ConvBefore.provider_options = <<>>
        /\ ConvBefore.address_options = <<>>
        /\ ~ Found.raises)
       => /\ Found.issue # <<>> => ConvAfter.booking_draft.issue # <<>>
          /\ Found.date_time # <<>> => ConvAfter.booking_draft.date_time # <<>>
          /\ AddressIn(last'.msg) # <<>> => ConvAfter.booking_draft.address # <<>>]_vars

\* C21: an address given in the message takes precedence over the saved
\* addresses: when the draft has no address and the message of a turn that
\* reaches the extractor names one, the draft holds the message's address
\* after the turn.
C21_MessageAddressFirst ==
    [][(/\ last'.op = "chat"
        /\ last'.ready
        /\ last'.pre.state \in {"", "collecting"}
        /\ last'.pre.draft.address = <<>>
        /\ ConvBefore.provider_options = <<>>
        /\ ConvBefore.address_options = <<>>
        /\ ~ Found.raises
        /\ Found.service # ""
        /\ AddressIn(last'.msg) # <<>>)
       => ConvAfter.booking_draft.address = AddressIn(last'.msg)]_vars

\* the sort key of an entry of the ranker's result
RankKey(e) ==
    <<IF e.available THEN 0 ELSE 1, 0 - e.rating,
      IF e.distance_m = None THEN max_distance_m + 1 ELSE e.distance_m>>

\* key a does not come after key b
KeyLeq(a, b) ==
    \/ a[1] < b[1]
    \/ a[1] = b[1] /\ a[2] < b[2]
    \/ a[1] = b[1] /\ a[2] = b[2] /\ a[3] <= b[3]

\* the spec's example: A (rating 4.5, 2 km), B (rating 5.0, 1 km, booked),
\* C (rating 4.0, 1 km), the user at position 0, a desired start given
ExampleABC ==
    /\ Len(providers) = 3
    /\ \A i \in 1..3 : providers[i].active /\ providers[i].service_type = <<"plumber">>
    /\ <<providers[1].rating, providers[2].rating, providers[3].rating>> = <<45, 50, 40>>
    /\ <<providers[1].coverage_coords, providers[2].coverage_coords,
         providers[3].coverage_coords>> = <<2000, 1000, 1000>>
    /\ users[Alice].coords = 0
    /\ Len(bookings) = 1
    /\ last.req.start = 2340
    /\ last.msg = <<"plumber">>

\* C22: the ranker returns at most 5 providers ordered by availability,
\* then rating descending with a missing rating as 0, then distance
\* ascending with an unknown distance last; A, B, C of the example come out
\* as A, C, B; without a desired start every candidate counts as available,
\* with one a candidate is available when it has no overlapping booking.
C22_Ranking ==
    last.op = "rank"
    => /\ Len(last.out) <= 5
       /\ \A i, j \in 1..Len(last.out) :
              i < j => KeyLeq(RankKey(last.out[i]), RankKey(last.out[j]))
       /\ \A i \in 1..Len(last.out) :
              /\ last.out[i].rating =
                     (IF providers[last.out[i].id].rating = None THEN 0
                      ELSE providers[last.out[i].id].rating)
              /\ last.out[i].available =
                     (\/ last.req.start = None
                      \/ ~ \E b \in 1..Len(bookings) :
                             /\ bookings[b].provider_id = last.out[i].id
                             /\ bookings[b].start < last.req.start + 60
                             /\ bookings[b].end > last.req.start)
       /\ ExampleABC => [i \in 1..3 |-> last.out[i].id] = <<1, 3, 2>>

\* the example was ranked
C22_Witness == last.op = "rank" /\ ExampleABC /\ Len(last.out) = 3

\* C23: every provider the ranker returns is active and of the requested
\* service, whether the candidates come from the geo query, from the
\* fallback after an empty geo query or from the query without coordinates.
C23_ActiveAndMatching ==
    last.op = "rank"
    => \A i \in 1..Len(last.out) :
           /\ providers[last.out[i].id].active
           /\ providers[last.out[i].id].service_type = last.msg

\* the geo query returned a provider and left out an inactive one
C23_Witness ==
    /\ last.op = "rank"
    /\ last.out # <<>>
    /\ last.out[1].distance_m # None
    /\ \E i \in 1..Len(providers) :
           ~ providers[i].active /\ providers[i].service_type = last.msg

\* C24: for intervals with start < end the overlap test (a.start < b.end
\* and a.end > b.start) is symmetric and excludes touching intervals:
\* [10:00, 11:00) and [11:00, 12:00) do not conflict, [10:00, 11:00) and
\* [10:30, 11:30) do; both conflict queries agree.
C24_OverlapSymmetric ==
    last.op = "overlap"
    => /\ last.out[1] = ~ last.out[2]
       /\ last.out[2] = HasConflict(<<BookingOf(last.req)>>, bookings[1])
       /\ last.out[2] = (\E t \in 570..720 :
                            /\ bookings[1].start <= t /\ t < bookings[1].end
                            /\ last.req.start <= t /\ t < last.req.end)
       /\ (bookings[1].end = last.req.start \/ last.req.end = bookings[1].start)
              => ~ last.out[2]
       /\ (<<bookings[1].start, bookings[1].end>> = <<600, 660>>
              /\ <<last.req.start, last.req.end>> = <<630, 690>>)
              => last.out[2]

\* [11:00, 12:00) was asked about with [10:00, 11:00) stored
C24_Witness ==
    /\ last.op = "overlap"
    /\ <<bookings[1].start, bookings[1].end>> = <<600, 660>>
    /\ <<last.req.start, last.req.end>> = <<660, 720>>
    /\ last.out = <<TRUE, FALSE>>

\* the day word of the parsed text: 1 for tomorrow, 0 for today, -1 for none
DayWord ==
    IF \E i \in 1..Len(last.msg) : last.msg[i] = "tomorrow" THEN 1
    ELSE IF \E i \in 1..Len(last.msg) : last.msg[i] = "today" THEN 0
    ELSE -1

\* the minute of the day each well-formed clock time stands for
ClockMinutes ==
    <<"3pm">> :> 900 @@ <<"3", "pm">> :> 900 @@ <<"12am">> :> 0 @@
    <<"12pm">> :> 720 @@ <<"11am">> :> 660 @@ <<"15:00">> :> 900 @@
    <<"3:30pm">> :> 930 @@ <<"12:30am">> :> 30 @@ <<"300pm">> :> 900 @@
    <<"1230pm">> :> 750 @@ <<"0:00">> :> 0

\* the clock times with an hour above 23 or a minute above 59
Malformed == {<<"25:00">>, <<"13pm">>, <<"12:60">>}

\* the clock time c is part of the parsed text
HasClock(c) ==
    \E i \in 1..Len(last.msg) :
        i + Len(c) - 1 <= Len(last.msg) /\ SubSeq(last.msg, i, i + Len(c) - 1) = c

\* C25: the parser yields a value only when the text has a day word (today
\* or tomorrow) and a clock time, and then the value is that day at that
\* time: "tomorrow at 3pm" is the next day 15:00, "3pm" alone is nothing,
\* pm adds 12 unless the hour is 12, and 12 am is hour 0.
C25_DayAndClock ==
    last.op = "parse"
    => /\ last.out[1].kind = "ok"
              => /\ DayWord >= 0
                 /\ \E c \in DOMAIN ClockMinutes :
                        /\ HasClock(c)
                        /\ last.out[1].dt = DayWord * 1440 + ClockMinutes[c]
       /\ (DayWord >= 0 /\ \E c \in DOMAIN ClockMinutes : HasClock(c))
              => last.out[1].kind = "ok"
       /\ last.msg = <<"tomorrow", "at", "3pm">>
              => last.out[1] = [kind |-> "ok", dt |-> 1440 + 15 * 60]
       /\ last.msg = <<"3pm">> => last.out[1].kind = "none"
       /\ last.msg = <<"today", "12pm">> => last.out[1].dt = 12 * 60
       /\ last.msg = <<"today", "12am">> => last.out[1].dt = 0

\* "tomorrow at 3pm" was parsed
C25_Witness ==
    /\ last.op = "parse"
    /\ last.msg = <<"tomorrow", "at", "3pm">>
    /\ last.out[1].kind = "ok"

\* C26: a clock time whose hour is above 23 after the am/pm adjustment or
\* whose minutes are above 59 is treated as no date found: the parser
\* returns nothing for it (and the turn goes on to its one reply).
C26_MalformedIsNoDate ==
    (last.op = "parse" /\ \E c \in Malformed : HasClock(c))
    => last.out[1].kind = "none"

\* the conversation a turn works on: the phone's open one, or the one the
\* turn inserts
TurnConv ==
    IF OpenConv(conversations, last'.phone) = 0 THEN Len(conversations')
    ELSE OpenConv(conversations, last'.phone)

C28_FailureMasked ==
    last.op = "llm"
    => LET o == last.out[1]
           cands == o.tried.candidates
           called == o.tried.called
       IN  /\ \A i, j \in 1..Len(cands) : i # j => cands[i] # cands[j]
           /\ \A i \in 1..Len(cands) : cands[i] # <<>>
           /\ (~ o.fast /\ o.settings.model = <<"haiku", FALSE>>)
                  => cands = <<<<"haiku", FALSE>>, <<"haiku", TRUE>>>>
           /\ (~ o.fast /\ o.settings.model = <<"sonnet", FALSE>>)
                  => cands = <<<<"sonnet", FALSE>>, <<"sonnet", TRUE>>,
                               <<"haiku", FALSE>>, <<"haiku", TRUE>>>>
           /\ Len(called) <= Len(cands)
           /\ called = SubSeq(cands, 1, Len(called))
           /\ \A k \in 1..(Len(called) - 1) : o.answers[called[k]] # "text"
           /\ IF called # <<>> /\ o.answers[called[Len(called)]] = "text"
              THEN o.natural = <<"llm">> /\ o.final = <<"llm">>
              ELSE /\ called = cands
                   /\ o.natural = <<"share_more">>
                   /\ o.final = <<"local_reply">>

\* the first two candidates failed, the third answered and the fourth was
\* not called
C28_Witness ==
    /\ last.op = "llm"
    /\ Len(last.out[1].tried.candidates) = 4
    /\ Len(last.out[1].tried.called) = 3
    /\ last.out[1].answers[<<"sonnet", FALSE>>] = "raises"
    /\ last.out[1].answers[<<"sonnet", TRUE>>] = "empty"
    /\ last.out[1].natural = <<"llm">>

\* C29: /reset clears the sender's name, location and policy agreement and
\* removes the sender's pending_field and coordinates and the pending_field
\* of the sender's provider record; every other field of these records,
\* every other user and provider, the bookings and the booking fields of
\* the conversations stay as they are, and no step removes a user record.
C29_ResetFrame ==
    [][/\ DOMAIN users \subseteq DOMAIN users'
       /\ (last'.op = "chat" /\ last'.msg = <<"/reset">>)
          => /\ users'[last'.phone] =
                    [name |-> <<>>, location |-> <<>>, coords |-> None,
                     policy_agreed |-> FALSE, pending_field |-> "",
                     addresses |-> IF last'.phone \in DOMAIN users
                                   THEN users[last'.phone].addresses ELSE <<>>]
             /\ DOMAIN users' = DOMAIN users \cup {last'.phone}
             /\ \A q \in DOMAIN users : q # last'.phone => users'[q] = users[q]
             /\ providers' =
                    [i \in 1..Len(providers) |->
                        IF providers[i].phone = last'.phone
                        THEN [providers[i] EXCEPT !.pending_field = ""]
                        ELSE providers[i]]
             /\ bookings' = bookings
             /\ \A i \in 1..Len(conversations) :
                    [conversations'[i] EXCEPT !.messages = <<>>]
                        = [conversations[i] EXCEPT !.messages = <<>>]]_vars

\* a sender who was asked for the service type as a provider has reset the
\* profile: the onboarding field is gone, the provider record is otherwise
\* as it was
C29_Witness ==
    /\ last.op = "chat" /\ last.msg = <<"/reset">> /\ last.phone = Bob
    /\ users[Bob].name = <<>> /\ users[Bob].coords = None
    /\ Len(providers) = 2
    /\ providers[2].pending_field = "" /\ ~ providers[2].active
    /\ providers[2].name = <<"alice">> /\ providers[2].coverage = <<>>

\* pending_field and active of the sender's provider record before and
\* after a step ("none" and inactive when there is no record)
ProvBefore ==
    IF ProviderOf(providers, last'.phone) = 0
    THEN [pending_field |-> "none", active |-> FALSE]
    ELSE [pending_field |-> providers[ProviderOf(providers, last'.phone)].pending_field,
          active |-> providers[ProviderOf(providers, last'.phone)].active]

ProvAfter ==
    IF ProviderOf(providers', last'.phone) = 0
    THEN [pending_field |-> "none", active |-> FALSE]
    ELSE [pending_field |-> providers'[ProviderOf(providers', last'.phone)].pending_field,
          active |-> providers'[ProviderOf(providers', last'.phone)].active]

\* the steps of the onboarding sequence
OnboardEdges ==
    {<<"none", "name">>, <<"name", "service_type">>, <<"service_type", "coverage">>,
     <<"coverage", "policy">>, <<"policy", "activate">>, <<"activate", "">>}

\* the onboarding starts only for a fully registered sender without
\* provider record whose message has both words, and moves along the
\* sequence one step per turn, from policy only on an affirmative answer
OnboardSteps ==
    /\ ProvAfter.pending_field # ProvBefore.pending_field
           => <<ProvBefore.pending_field, ProvAfter.pending_field>> \in OnboardEdges
    /\ (ProvBefore.pending_field = "none" /\ ProvAfter.pending_field # "none")
           => /\ last'.ready
              /\ Read[last'.msg].register
    /\ (ProvBefore.pending_field = "policy" /\ ProvAfter.pending_field = "activate")
           => last'.msg \in YesWords
    /\ (~ ProvBefore.active /\ ProvAfter.active)
           => ProvBefore.pending_field = "activate" /\ ProvAfter.pending_field = ""

\* C30: provider onboarding starts only when a fully registered user
\* without provider record sends a message with both 'register' and
\* 'provider', then moves the provider's pending_field through name,
\* service_type, coverage, policy, activate one step per turn, from policy
\* only on an affirmative answer; the pending_field is cleared only at the
\* activation step, and active becomes true only there.
C30_OnboardingSequence == [][last'.op = "chat" => OnboardSteps]_vars

\* C30 as the handler has it: the same, except that /reset clears the
\* provider's pending_field at any step and leaves the record inactive or
\* active as it was.
C30_SequenceUnlessReset ==
    [][last'.op = "chat"
       => IF last'.msg = <<"/reset">>
          THEN /\ ProvAfter.active = ProvBefore.active
               /\ ProvAfter.pending_field =
                      (IF ProvBefore.pending_field = "none" THEN "none" ELSE "")
          ELSE OnboardSteps]_vars

\* the sender went through the five steps and is live as a plumber
C30_Witness ==
    /\ last.op = "chat" /\ last.reply = <<"provider_live">>
    /\ Len(providers) = 2
    /\ providers[2].active /\ providers[2].pending_field = ""
    /\ providers[2].name = <<"alice">>
    /\ providers[2].service_type = <<"plumber">>
    /\ providers[2].coverage = HomeLocation
    /\ providers[2].policy_agreed

\* C31: a provider who answered 'no' at the activation step (registered,
\* policy agreed, nothing pending, not live) becomes active in the turn in
\* which the fully registered sender sends a message containing 'go live'.
C31_GoLiveLater ==
    [][(/\ last'.op = "chat"
        /\ Read[last'.msg].go_live
        /\ last'.ready
        /\ ProviderOf(providers, last'.phone) # 0
        /\ providers[ProviderOf(providers, last'.phone)].policy_agreed
        /\ providers[ProviderOf(providers, last'.phone)].pending_field = ""
        /\ ~ providers[ProviderOf(providers, last'.phone)].active)
       => ProvAfter.active]_vars

\* C32: of an identifier with an "@" only the part before the first "@"
\* contributes to the phone token; the token consists of digits with an
\* optional "+" in leading position only, and there is no token when that
\* part has no digit.
C32_PhoneToken ==
    (last.op = "extract_phone" /\ \E i \in 1..Len(last.msg) : last.msg[i] = "@")
    => LET first == CHOOSE i \in 1..Len(last.msg) :
                       last.msg[i] = "@" /\ \A j \in 1..(i - 1) : last.msg[j] # "@"
           token == last.out[1]
       IN  /\ token = SelectSeq(SubSeq(last.msg, 1, first - 1),
                                LAMBDA ch : ch \in {"1", "+"})
              \/ token = <<>>
           /\ \A k \in 1..Len(token) : token[k] = "1" \/ (token[k] = "+" /\ k = 1)
           /\ (token = <<>>) = (\A j \in 1..(first - 1) : last.msg[j] # "1")

\* C36: converse makes at most 5 remote calls; it makes a further call only
\* after a throttling error and only while fewer than 5 calls were made,
\* re-raises the throttling error of the 5th call and any other error at
\* once, and so ends with a response or an error.
C36_BoundedRetry ==
    last.op = "converse"
    => /\ last.out[1].calls \in 1..5
       /\ \A k \in 1..(last.out[1].calls - 1) : last.msg[k] = "throttling"
       /\ last.out[1].result = last.msg[last.out[1].calls]
       /\ last.out[1].result = "throttling" => last.out[1].calls = 5
       /\ last.out[1].result \in {"response", "throttling", "other"}

\* five throttling errors in a row: the fifth is raised
C36_Witness ==
    /\ last.op = "converse"
    /\ \A k \in 1..5 : last.msg[k] = "throttling"
    /\ last.out[1] = [result |-> "throttling", calls |-> 5]

\* C33: when the draft has no address and the user has several saved
\* addresses none of which is flagged default, the turn of the booking
\* branch presents the address choice: the options are stored on the
\* conversation, booking_state is awaiting_address_choice, the draft gets no
\* address and nothing is booked.
C33_AskWhichAddress ==
    [][(/\ last'.op = "chat"
        /\ last'.ready
        /\ last'.msg \in {m_service, <<"1">>, <<"yes">>, <<"no">>}
        /\ last'.pre.state \in {"", "collecting"}
        /\ last'.pre.draft.address = <<>>
        /\ ConvBefore.address_options = <<>>
        /\ Len(users[last'.phone].addresses) > 1
        /\ \A i \in 1..Len(users[last'.phone].addresses) :
               ~ users[last'.phone].addresses[i].is_default)
       => /\ last'.reply = <<"choose_address">>
          /\ ConvAfter.booking_state = "awaiting_address_choice"
          /\ Len(ConvAfter.address_options) = Len(users[last'.phone].addresses)
          /\ ConvAfter.booking_draft.address = <<>>
          /\ bookings' = bookings]_vars

\* C34: when a message of the booking branch has no word of the service
\* vocabulary but shares a normalized token with a service_type of the
\* provider store, the draft's service becomes the service type with the
\* largest token intersection (the longer one on a tie) and the turn goes
\* on to list the providers of that service.
ScoreOf(msg, st) == Cardinality(norm_tokens(Chars(msg)) \cap norm_tokens(Chars(st)))

BestServiceTypes(msg) ==
    LET vals == {providers[i].service_type : i \in 1..Len(providers)} \ {<<>>}
        hit == {st \in vals : ScoreOf(msg, st) > 0}
        top == {st \in hit : \A o \in hit : ScoreOf(msg, o) <= ScoreOf(msg, st)}
    IN  {st \in top : \A o \in top : Len(Chars(o)) <= Len(Chars(st))}

C34_ServiceFromStore ==
    [][(/\ last'.op = "chat"
        /\ last'.ready
        /\ last'.pre.state \in {"", "collecting"}
        /\ last'.pre.draft.service = ""
        /\ ~ Read[last'.msg].slash
        /\ ~ Read[last'.msg].register
        /\ ServiceIn(last'.msg) = ""
        /\ BestServiceTypes(last'.msg) # {})
       => /\ <<ConvAfter.booking_draft.service>> \in BestServiceTypes(last'.msg)
          /\ ConvAfter.booking_state = "awaiting_provider_choice"
          /\ ConvAfter.provider_options # <<>>]_vars

\* C35: in a turn of a sender who lacks a name, a location or the policy
\* agreement, or whose provider record has a pending field, no
\* conversation's booking_draft, booking_state or option list changes (a
\* conversation the turn opens has none), and no booking is inserted.
C35_NoNegotiationYet ==
    [][(/\ last'.op = "chat"
        /\ \/ last'.phone \notin DOMAIN users
           \/ MissingFields(users[last'.phone]) # <<>>
           \/ ProvBefore.pending_field \in
                  {"name", "service_type", "coverage", "policy", "activate"})
       => /\ bookings' = bookings
          /\ \A i \in 1..Len(conversations') :
                 \A c \in {IF i <= Len(conversations) THEN conversations[i]
                           ELSE NewConversation(last'.phone)} :
                     /\ conversations'[i].booking_draft = c.booking_draft
                     /\ conversations'[i].booking_state = c.booking_state
                     /\ conversations'[i].provider_options = c.provider_options
                     /\ conversations'[i].address_options = c.address_options]_vars

\* C37: in every reachable state a conversation has provider_options only
\* while its booking_state is awaiting_provider_choice and address_options
\* only while its booking_state is awaiting_address_choice; so none is
\* left once a choice, a commit or a cancel has moved the state on.
C37_OptionsMatchState ==
    \A i \in 1..Len(conversations) :
        /\ conversations[i].provider_options # <<>>
               => conversations[i].booking_state = "awaiting_provider_choice"
        /\ conversations[i].address_options # <<>>
               => conversations[i].booking_state = "awaiting_address_choice"

\* C38: in awaiting_confirm a turn inserts a booking only if the whole
\* message is one of the affirmative words; a longer message that begins
\* with one of them inserts none.
C38_WholeWordConfirms ==
    [][(/\ last'.op = "chat"
        /\ last'.pre.state = "awaiting_confirm"
        /\ last'.msg \notin confirm_words)
       => bookings' = bookings]_vars

\* C39: the turn after a /reset, whose reply asks for the full name, stores
\* its message as the sender's name when the message is not empty and not
\* a slash command.
C39_NameAfterReset ==
    [][(/\ last.op = "chat"
        /\ last.msg = <<"/reset">>
        /\ last.reply = <<"profile_reset">>
        /\ last'.op = "chat"
        /\ last'.phone = last.phone
        /\ last'.msg # <<>>
        /\ ~ Read[last'.msg].slash)
       => users'[last'.phone].name = last'.msg]_vars

\* C40: after a conflict refusal at confirmation, a message from the same
\* sender that gives a different day and time than the refused one puts the
\* new time in the draft and is answered with the confirmation summary
\* (from which 'yes' books the draft's time).
C40_NewTimeAfterRefusal ==
    [][(/\ last.op = "chat"
        /\ last.reply = <<"no_providers_available">>
        /\ last'.op = "chat"
        /\ last'.phone = last.phone
        /\ last'.pre.state = "collecting"
        /\ Extracted[last'.msg, users[last'.phone].location].date_time
               \notin {<<>>, last'.pre.draft.date_time})
       => /\ ConvAfter.booking_draft.date_time =
                 Extracted[last'.msg, users[last'.phone].location].date_time
          /\ ConvAfter.booking_state = "awaiting_confirm"
          /\ last'.reply = <<"confirm_summary">>]_vars

====
